---- MODULE Spec2Model ----
(***************************************************************************)
(* Model of the per-connection request scheduler of the HTTPS client       *)
(* (libraries/freertos_plus/standard/https/src/iot_https_client.c).        *)
(*                                                                         *)
(* One connection context (one caller-supplied connection buffer) is       *)
(* modelled.  The threads are: the application (SendAsync, SendSync,       *)
(* CancelRequestAsync, Disconnect), the task pool worker running           *)
(* _sendHttpsRequest, and the transport's receive thread running           *)
(* _networkReceiveCallback.  The transport, the http-parser and the task   *)
(* pool are external: their results are inputs drawn with \E.              *)
(*                                                                         *)
(* Several workloads are checked.  SpecAsync is an application that         *)
(* submits its requests with SendAsync; SpecAsyncCancel and                *)
(* SpecAsyncDisconnect are its parts with CancelRequestAsync only and with *)
(* Disconnect only.  SpecSync is an application that submits its requests  *)
(* with SendSync; SpecApi adds calls with a request configured for the     *)
(* other interface, SpecConn explicit Connect and Disconnect calls.        *)
(* SpecHeaders is the header space of one request buffer under             *)
(* InitializeRequest and AddHeader.  SpecSend is the send job writing one  *)
(* request to the transport, SpecWrite the calls of WriteRequestBody on    *)
(* one request, SpecRead the calls of ReadHeader on one response, SpecBody *)
(* the receive side of one exchange with its response buffers, SpecMutex   *)
(* the threads at their queue operations, one lock, unlock or queue        *)
(* operation at a time, SpecNet the calls of the transport in              *)
(* _networkRecv and _networkSend, SpecFlush the flush of the rest of one   *)
(* response.  SpecAsyncNoBody is SpecAsync without Cancel and Disconnect   *)
(* and with requests that may have no body, SpecAsyncAnswered the same     *)
(* against a server that sends nothing but its answers.  Spec is the union *)
(* of all of them.                                                         *)
(*                                                                         *)
(* The progress properties are checked under FairAsyncCancel and           *)
(* FairAsyncAnswered: the task pool runs every scheduled job to its end,   *)
(* and the receive callback runs to its end for every queued response.     *)
(*                                                                         *)
(* Environment assumptions: IotTaskPool_CreateJob / IotTaskPool_Schedule   *)
(* and IotSemaphore_Create succeed; every asynchronous request supplies    *)
(* all its callbacks; each request handle is submitted once; requests are  *)
(* numbered in the order in which they are submitted; one receive callback *)
(* runs at a time.                                                         *)
(***************************************************************************)
EXTENDS Integers, Sequences, FiniteSets, TLC

\* Number of requests the application submits.
NumReq == 2
\* Largest number of readReadyCallback invocations in one exchange.
MaxReadReady == 2
\* Number of those requests that may be synchronous.
NumSync == 1

Reqs == 1 .. NumReq
\* Body lengths the application gives a request.
BodyLengths == {1}

\* IotHttpsResponseParserState_t, in the order the code compares them.
PARSER_STATE_NONE == 0
PARSER_STATE_IN_HEADERS == 1
PARSER_STATE_HEADERS_COMPLETE == 2
PARSER_STATE_IN_BODY == 3
PARSER_STATE_BODY_COMPLETE == 4
ParserStates == PARSER_STATE_NONE .. PARSER_STATE_BODY_COMPLETE

\* IotHttpsReturnCode_t values used by the scheduler.
OK == "OK"
NETWORK_ERROR == "NETWORK_ERROR"
TIMEOUT_ERROR == "TIMEOUT_ERROR"
PARSING_ERROR == "PARSING_ERROR"
MESSAGE_TOO_LARGE == "MESSAGE_TOO_LARGE"
ASYNC_CANCELLED == "ASYNC_CANCELLED"
BUSY == "BUSY"
CONNECTION_ERROR == "CONNECTION_ERROR"
INVALID_PARAMETER == "INVALID_PARAMETER"
INSUFFICIENT_MEMORY == "INSUFFICIENT_MEMORY"
INTERNAL_ERROR == "INTERNAL_ERROR"
NOT_SUPPORTED == "NOT_SUPPORTED"
MESSAGE_FINISHED == "MESSAGE_FINISHED"
NOT_FOUND == "NOT_FOUND"

NetStatuses == {OK, TIMEOUT_ERROR, NETWORK_ERROR}

\* The halves of a uint32_t value.
Half == 65536
U32(n) == [hi |-> n \div Half, lo |-> n % Half]

\* No request is being sent, and nothing was formatted.
NoRequest == [headersLength |-> 0, isNonPersistent |-> FALSE, contentLength |-> U32(0),
              hasBody |-> FALSE]
NoFinal == [line |-> <<>>, numWritten |-> 0]

\* A request as IotHttpsClient_InitializeRequest leaves it: no body is set
\* and IotHttpsClient_WriteRequestBody was not called.
NoBody == [isAsync |-> TRUE, pBody |-> "NULL", bodyLength |-> 0, calls |-> 0, accepted |-> 0,
           call |-> [pBuf |-> "NULL", len |-> 0, isComplete |-> 1, ret |-> "OK"]]

\* A response nothing was received for, and no IotHttpsClient_ReadHeader call.
NoResponse == [headers |-> <<>>, complete |-> FALSE, parserState |-> PARSER_STATE_NONE,
               bufferProcessingState |-> "NONE", during |-> FALSE]
NoRead == [pName |-> <<>>, len |-> 0, null |-> FALSE, ret |-> "OK", value |-> "none"]

\* No exchange on the receive side, and an application that has read no body.
NoExchange == [pc |-> "none", method |-> "GET", isAsync |-> FALSE, contentLength |-> 0,
               arrived |-> 0, halted |-> FALSE, parserState |-> PARSER_STATE_NONE,
               bufferProcessingState |-> "NONE", pBody |-> "NULL", bodyLen |-> 0,
               body |-> <<>>, inHeaderBuf |-> <<>>, status |-> "OK", net |-> "OK",
               bodyRxStatus |-> "OK", syncStatus |-> "OK", count |-> 0]
NoApp == [delivered |-> <<>>, passed |-> 0, pLen |-> 0, calls |-> 0]

\* The two queues and their mutexes with no thread in a handler, and no
\* queue operation.
NoLocks == [held |-> [reqQ |-> "none", respQ |-> "none"],
            pc |-> [app |-> <<>>, job |-> <<>>, rx |-> <<>>],
            q |-> [reqQ |-> <<>>, respQ |-> <<>>], n |-> 0]
NoOp == [thread |-> "none", queue |-> "none", op |-> "none", held |-> TRUE]

\* No call of _flushHttpsNetworkData.
NoFlushCall == [pc |-> "none", parserState |-> PARSER_STATE_NONE, networkStatus |-> "OK",
                parserStatus |-> "OK", returnStatus |-> "OK", nets |-> <<>>]

\* No call of _networkRecv or _networkSend.
NoCall == [op |-> "none", len |-> 0, rets |-> <<>>, status |-> "OK", calls |-> 0,
           wild |-> FALSE]

\* No receive took place.
NoRecv == [status |-> OK, net |-> OK, pst |-> PARSER_STATE_NONE]

VARIABLES
    \* _httpsConnection_t
    isConnected,          \* isConnected
    reqQ,                 \* reqQ: sequence of request ids
    respQ,                \* respQ: sequence of request ids (the paired responses)
    wire,                 \* what the current transport connection was sent: <<request, part>>
    \* _httpsRequest_t, indexed by request
    nextReq,              \* the next request the application submits
    isAsync,              \* pHttpsResponse->isAsync
    isNonPersistent,      \* isNonPersistent
    timed,                \* timeoutMs > 0 in the SendSync call in progress
    reqCancelled,         \* _httpsRequest_t.cancelled
    respCancelled,        \* _httpsResponse_t.cancelled
    reqFinishedSending,   \* reqFinishedSending
    bodyLength,           \* bodyLength (0: no body)
    \* _httpsResponse_t
    parserState,
    syncStatus,
    bodyRxStatus,
    semState,             \* respFinishedSem: "none", "empty", "posted", "destroyed"
    \* the send job of each request (_sendHttpsRequest on the task pool)
    jobPc,                \* "idle", "sched", "write", "hdrs", "body", "done"; "lost": the
                          \* job was pending when its storage was given to another request
    jobStatus,            \* status with which the job reached its cleanup
    \* the receive callback (_networkReceiveCallback)
    rxPc,                 \* "idle", "body", "cleanup"
    rxCur,                \* pCurrentHttpsResponse (0: none)
    rxStatus,             \* status
    rxNet,                \* networkStatus
    rxFatal,              \* fatalDisconnect
    rxCount,              \* readReadyCallback invocations so far
    rxParse,              \* where _parseHttpsMessage failed in this exchange: "none",
                          \* "headers", "body", "flush"
    \* the caller blocked in IotHttpsClient_SendSync
    syncPc,               \* "none", "wait", "tmo" (timed out, before the return), "ret"
    syncRet,              \* value returned by SendSync
    respHandle,           \* *pRespHandle of the SendSync call: "unset", "set", "NULL"
    \* history
    log,                  \* per request: the callbacks invoked and the first byte sent
    outcome,              \* how the receive callback ended each exchange: "none", "disconnect", "flush"
    readCancel,           \* CancelRequestAsync was called while the request's readReady loop ran
    syncRx,               \* synchronous request: status, networkStatus and parserState with
                          \* which the receive callback reached its cleanup
    \* resources of the connection
    connHandle,           \* *pConnHandle of the application: "NULL" or "set"
    netConn,              \* pNetworkConnection: "none", "open", "closed", "destroyed"
    reqQMutex,            \* "none", "created", "destroyed"
    respQMutex,           \* "none", "created", "destroyed"
    \* calls whose return value the application keeps
    apiCall,              \* the API function called last ("none": no such call)
    apiRet,               \* the value that call returned
    apiAcquired,          \* Connect: the resources the call created
    apiReleased,          \* Connect: the resources the call closed and destroyed
    \* the header space of a request buffer (_httpsRequest_t), offsets from pHeaders
    reqHandle,            \* *pReqHandle of the application: "NULL" or "set"
    pHeadersCur,          \* pHeadersCur - pHeaders
    pHeadersEnd,          \* pHeadersEnd - pHeaders
    headerLines,          \* the lines written from pHeaders on: <<name, length of the value>>
                          \* (the request line: <<empty name, length of the line>>)
    hdrName,              \* AddHeader: pName of the last call
    hdrLen,               \* AddHeader: len of the last call
    hdrNull,              \* AddHeader: pName or pValue of the last call was NULL
    txReq,                \* _sendHttpsHeaders: headersLength, isNonPersistent, contentLength, hasBody (pBody /= NULL)
    txPc,                 \* the send of that request: "idle", "headers", "body", "done"
    txStatus,             \* status of the send so far
    txWire,               \* what the transport took: <<"headers", n>>, <<"final", bytes>>, <<"body", n>>, <<"part", what>>
    txFinal,              \* _sendHttpsHeaders: the line snprintf formats (whole) and numWritten at the last send
    wrReq,                \* WriteRequestBody: isAsync, pBody, bodyLength of the request, the calls made and accepted, the last call
    rdResp,               \* _httpsResponse_t under ReadHeader: the header lines stored in [pHeaders, pHeadersCur), whether they end the headers, parserState, bufferProcessingState, and whether the exchange is in progress
    rdCall,               \* ReadHeader: pName, len, NULL argument, return value and value copied of the last call
    bdResp,               \* _httpsResponse_t of one exchange on the receive side: its parser and body state
    bdApp,                \* the body bytes IotHttpsClient_ReadResponseBody handed to the application
    mtx,                  \* reqQMutex and respQMutex, the queues, and what is left of the handler of each thread
    mtxOp,                \* the last queue operation, and whether its thread held the mutex of the queue
    nwCall,               \* the last call of _networkRecv or _networkSend: what the transport returned and the status
    flCall,               \* one call of _flushHttpsNetworkData: its local variables and the parser state of the response
    fault                 \* "none", or the undefined behaviour that stopped the program

connVars == <<isConnected, reqQ, respQ, wire>>
reqVars == <<nextReq, isAsync, isNonPersistent, timed, reqCancelled, respCancelled,
             reqFinishedSending, bodyLength>>
respVars == <<parserState, syncStatus, bodyRxStatus, semState>>
jobVars == <<jobPc, jobStatus>>
rxVars == <<rxPc, rxCur, rxStatus, rxNet, rxFatal, rxCount, rxParse>>
syncVars == <<syncPc, syncRet, respHandle>>
histVars == <<log, outcome, readCancel, syncRx, fault>>
resVars == <<connHandle, netConn, reqQMutex, respQMutex>>
apiVars == <<apiCall, apiRet, apiAcquired, apiReleased>>
hdrVars == <<reqHandle, pHeadersCur, pHeadersEnd, headerLines, hdrName, hdrLen, hdrNull>>
txVars == <<txReq, txPc, txStatus, txWire, txFinal>>
wrVars == <<wrReq>>
rdVars == <<rdResp, rdCall>>
bdVars == <<bdResp, bdApp>>
mxVars == <<mtx, mtxOp>>
nwVars == <<nwCall>>
flVars == <<flCall>>
libVars == <<txVars, wrVars, rdVars, bdVars, mxVars, nwVars, flVars>>
extVars == <<resVars, apiVars, hdrVars, libVars>>
vars == <<connVars, reqVars, respVars, jobVars, rxVars, syncVars, histVars, extVars>>
\* What the calls on a single request or response leave alone.
coreVars == <<connVars, reqVars, respVars, jobVars, rxVars, syncVars, histVars, resVars,
              apiVars, hdrVars>>
notTx == <<coreVars, wrVars, rdVars, bdVars, mxVars, nwVars, flVars>>
notWr == <<coreVars, txVars, rdVars, bdVars, mxVars, nwVars, flVars>>
notRd == <<coreVars, txVars, wrVars, bdVars, mxVars, nwVars, flVars>>
notBd == <<coreVars, txVars, wrVars, rdVars, mxVars, nwVars, flVars>>
notMx == <<coreVars, txVars, wrVars, rdVars, bdVars, nwVars, flVars>>
notNw == <<coreVars, txVars, wrVars, rdVars, bdVars, mxVars, flVars>>
notFl == <<coreVars, txVars, wrVars, rdVars, bdVars, mxVars, nwVars>>

Init ==
    /\ isConnected = FALSE
    /\ reqQ = <<>>
    /\ respQ = <<>>
    /\ wire = <<>>
    /\ nextReq = 1
    /\ isAsync = [r \in Reqs |-> FALSE]
    /\ isNonPersistent = [r \in Reqs |-> FALSE]
    /\ timed = [r \in Reqs |-> FALSE]
    /\ reqCancelled = [r \in Reqs |-> FALSE]
    /\ respCancelled = [r \in Reqs |-> FALSE]
    /\ reqFinishedSending = [r \in Reqs |-> FALSE]
    /\ bodyLength = [r \in Reqs |-> 0]
    /\ parserState = [r \in Reqs |-> PARSER_STATE_NONE]
    /\ syncStatus = [r \in Reqs |-> OK]
    /\ bodyRxStatus = [r \in Reqs |-> OK]
    /\ semState = [r \in Reqs |-> "none"]
    /\ jobPc = [r \in Reqs |-> "idle"]
    /\ jobStatus = [r \in Reqs |-> OK]
    /\ rxPc = "idle"
    /\ rxCur = 0
    /\ rxStatus = OK
    /\ rxNet = OK
    /\ rxFatal = FALSE
    /\ rxCount = 0
    /\ rxParse = "none"
    /\ syncPc = [r \in Reqs |-> "none"]
    /\ syncRet = [r \in Reqs |-> OK]
    /\ respHandle = [r \in Reqs |-> "unset"]
    /\ log = [r \in Reqs |-> <<>>]
    /\ outcome = [r \in Reqs |-> "none"]
    /\ readCancel = [r \in Reqs |-> FALSE]
    /\ syncRx = [r \in Reqs |-> NoRecv]
    /\ connHandle = "NULL"
    /\ netConn = "none"
    /\ reqQMutex = "none"
    /\ respQMutex = "none"
    /\ apiCall = "none"
    /\ apiRet = OK
    /\ apiAcquired = {}
    /\ apiReleased = {}
    /\ reqHandle = "NULL"
    /\ pHeadersCur = 0
    /\ pHeadersEnd = 0
    /\ headerLines = <<>>
    /\ hdrName = <<>>
    /\ hdrLen = [hi |-> 0, lo |-> 0]
    /\ hdrNull = FALSE
    /\ txReq = NoRequest
    /\ txPc = "idle"
    /\ txStatus = OK
    /\ txWire = <<>>
    /\ txFinal = NoFinal
    /\ wrReq = NoBody
    /\ rdResp = NoResponse
    /\ rdCall = NoRead
    /\ bdResp = NoExchange
    /\ bdApp = NoApp
    /\ mtx = NoLocks
    /\ mtxOp = NoOp
    /\ nwCall = NoCall
    /\ flCall = NoFlushCall
    /\ fault = "none"

----------------------------------------------------------------------------
\* Helpers

Running == fault = "none"

\* The program has stopped on undefined behaviour: only the cause is kept,
\* what the stopped program held is observed no more.
Halt(cause) ==
    /\ isConnected' = FALSE
    /\ reqQ' = <<>>
    /\ respQ' = <<>>
    /\ wire' = <<>>
    /\ nextReq' = 1
    /\ isAsync' = [r \in Reqs |-> FALSE]
    /\ isNonPersistent' = [r \in Reqs |-> FALSE]
    /\ timed' = [r \in Reqs |-> FALSE]
    /\ reqCancelled' = [r \in Reqs |-> FALSE]
    /\ respCancelled' = [r \in Reqs |-> FALSE]
    /\ reqFinishedSending' = [r \in Reqs |-> FALSE]
    /\ bodyLength' = [r \in Reqs |-> 0]
    /\ parserState' = [r \in Reqs |-> PARSER_STATE_NONE]
    /\ syncStatus' = [r \in Reqs |-> OK]
    /\ bodyRxStatus' = [r \in Reqs |-> OK]
    /\ semState' = [r \in Reqs |-> "none"]
    /\ jobPc' = [r \in Reqs |-> "idle"]
    /\ jobStatus' = [r \in Reqs |-> OK]
    /\ rxPc' = "idle"
    /\ rxCur' = 0
    /\ rxStatus' = OK
    /\ rxNet' = OK
    /\ rxFatal' = FALSE
    /\ rxCount' = 0
    /\ rxParse' = "none"
    /\ syncPc' = [r \in Reqs |-> "none"]
    /\ syncRet' = [r \in Reqs |-> OK]
    /\ respHandle' = [r \in Reqs |-> "unset"]
    /\ log' = [r \in Reqs |-> <<>>]
    /\ outcome' = [r \in Reqs |-> "none"]
    /\ readCancel' = [r \in Reqs |-> FALSE]
    /\ syncRx' = [r \in Reqs |-> NoRecv]
    /\ connHandle' = "NULL"
    /\ netConn' = "none"
    /\ reqQMutex' = "none"
    /\ respQMutex' = "none"
    /\ apiCall' = "none"
    /\ apiRet' = OK
    /\ apiAcquired' = {}
    /\ apiReleased' = {}
    /\ reqHandle' = "NULL"
    /\ pHeadersCur' = 0
    /\ pHeadersEnd' = 0
    /\ headerLines' = <<>>
    /\ hdrName' = <<>>
    /\ hdrLen' = [hi |-> 0, lo |-> 0]
    /\ hdrNull' = FALSE
    /\ txReq' = NoRequest
    /\ txPc' = "idle"
    /\ txStatus' = OK
    /\ txWire' = <<>>
    /\ txFinal' = NoFinal
    /\ wrReq' = NoBody
    /\ rdResp' = NoResponse
    /\ rdCall' = NoRead
    /\ bdResp' = NoExchange
    /\ bdApp' = NoApp
    /\ mtx' = NoLocks
    /\ mtxOp' = NoOp
    /\ nwCall' = NoCall
    /\ flCall' = NoFlushCall
    /\ fault' = cause

Ev(name) == <<name, "">>
\* The history with event e added; a repeated invocation is recorded once.
Logged(l, e) == IF l /= <<>> /\ l[Len(l)] = e THEN l ELSE Append(l, e)
ErrEv(st) == <<"error", st>>

\* Requests whose exchange has started and not yet been ended by the receive callback.
InExchange == {r \in Reqs : r < nextReq /\ outcome[r] = "none"}

----------------------------------------------------------------------------
\* Pure parts of the code

\* _addRequestToConnectionReqQ: the request is scheduled when the queue was empty.
IsOnlyRequest(q) == q = <<>>

\* IotHttpsClient_Disconnect: BUSY when the head of the request queue has not
\* finished sending.
DisconnectStatus(q, rfs) == IF q /= <<>> /\ ~rfs[Head(q)] THEN BUSY ELSE OK

\* _networkDisconnect: the transport close.
NetClose(n) == "closed"

\* _networkDestroy: the transport destroy, of a connection closed before or not.
NetDestroy(n) == IF n = "closed" THEN "destroyed" ELSE "destroyed open"

\* The transport connection and the two mutexes of the connection.
Resources == [netConn |-> netConn, reqQMutex |-> reqQMutex, respQMutex |-> respQMutex]

\* IotHttpsClient_Disconnect that destroys the transport and the mutexes
\* without looking at the status.
DisconnectResourcesUnconditional(status, res) ==
    [netConn |-> NetDestroy(NetClose(res.netConn)),
     reqQMutex |-> "destroyed",
     respQMutex |-> "destroyed"]

\* IotHttpsClient_Disconnect: the transport is closed; the transport and the
\* two mutexes are destroyed when the status is OK.
DisconnectResources(status, res) ==
    [netConn |-> IF status = OK THEN NetDestroy(NetClose(res.netConn))
                 ELSE NetClose(res.netConn),
     reqQMutex |-> IF status = OK THEN "destroyed" ELSE res.reqQMutex,
     respQMutex |-> IF status = OK THEN "destroyed" ELSE res.respQMutex]

\* IotHttpsClient_Disconnect on a non-NULL handle: isConnected is cleared and
\* the request queue emptied, whatever the status; the handle of the
\* application is left as it is.
Disconnected(status) ==
    /\ UNCHANGED connHandle
    /\ isConnected' = FALSE
    /\ reqQ' = <<>>
    /\ netConn' = DisconnectResources(status, Resources).netConn
    /\ reqQMutex' = DisconnectResources(status, Resources).reqQMutex
    /\ respQMutex' = DisconnectResources(status, Resources).respQMutex

\* The steps of _createHttpsConnection that can fail, in the order of the code.
ConnectSteps ==
    <<"bufferLen", "pBuffer", "pNetworkInterface", "pAddress", "addressLen",
      "alpnProtocolsLen", "create", "setReceiveCallback", "reqQMutex", "respQMutex">>
FailSteps == {ConnectSteps[i] : i \in 1 .. Len(ConnectSteps)} \cup {"none"}
StepIndex(step) == CHOOSE i \in 1 .. Len(ConnectSteps) : ConnectSteps[i] = step

\* The step was passed by a run of _createHttpsConnection that fails at failAt.
Passed(step, failAt) == failAt = "none" \/ StepIndex(step) < StepIndex(failAt)

\* The status _createHttpsConnection sets at the step that fails.
CreateStatus(failAt) ==
    CASE failAt = "none" -> OK
      [] failAt = "bufferLen" -> INSUFFICIENT_MEMORY
      [] failAt = "create" -> CONNECTION_ERROR
      [] failAt \in {"setReceiveCallback", "reqQMutex", "respQMutex"} -> INTERNAL_ERROR
      [] OTHER -> INVALID_PARAMETER

\* A cleanup of _createHttpsConnection that releases the transport only.
CleanupReleasesTransportOnly(status, hasConn, connected, reqQMutexCreated, respQMutexCreated) ==
    IF status = OK THEN {}
    ELSE IF hasConn /\ connected THEN {"netConn"} ELSE {}

\* The cleanup of _createHttpsConnection: what it closes and destroys.
CleanupReleases(status, hasConn, connected, reqQMutexCreated, respQMutexCreated) ==
    IF status = OK THEN {}
    ELSE (IF hasConn /\ connected THEN {"netConn"} ELSE {})
         \cup (IF reqQMutexCreated THEN {"reqQMutex"} ELSE {})
         \cup (IF respQMutexCreated THEN {"respQMutex"} ELSE {})

\* _createHttpsConnection failing at failAt (or not), on a connection buffer
\* whose resources are res.  hasConn: pHttpsConnection was set; isConnected:
\* the field as the run leaves it; acquired, released: what the run created
\* and what its cleanup closed and destroyed.
CreateConnection(failAt, res) ==
    LET status == CreateStatus(failAt)
        hasConn == Passed("pBuffer", failAt)
        connected == Passed("create", failAt)
        reqQMutexCreated == Passed("reqQMutex", failAt)
        respQMutexCreated == Passed("respQMutex", failAt)
        acquired == (IF connected THEN {"netConn"} ELSE {})
                    \cup (IF reqQMutexCreated THEN {"reqQMutex"} ELSE {})
                    \cup (IF respQMutexCreated THEN {"respQMutex"} ELSE {})
        released == CleanupReleases(status, hasConn, connected,
                                    reqQMutexCreated, respQMutexCreated)
        created == IF connected THEN "open"
                   ELSE IF failAt = "create" THEN "none" ELSE res.netConn
    IN [status |-> status,
        handle |-> IF status = OK THEN "set" ELSE "NULL",
        hasConn |-> hasConn,
        isConnected |-> connected,
        acquired |-> acquired,
        released |-> released,
        netConn |-> IF "netConn" \in released THEN NetDestroy(NetClose(created)) ELSE created,
        reqQMutex |-> IF "reqQMutex" \in released THEN "destroyed"
                      ELSE IF reqQMutexCreated THEN "created" ELSE res.reqQMutex,
        respQMutex |-> IF "respQMutex" \in released THEN "destroyed"
                       ELSE IF respQMutexCreated THEN "created" ELSE res.respQMutex]

\* IotHttpsClient_CancelRequestAsync: which cancelled flag a call sets.
CancelTarget(hasReq, hasResp) ==
    IF hasResp THEN "resp" ELSE IF hasReq THEN "req" ELSE "none"

\* The cancelled flag that _sendHttpsRequest and the receive path test.
ObservedCancelled(r) == respCancelled[r]

\* _networkReceiveCallback: dequeue the head of the request queue, then peek the
\* new head: the request to schedule next (0: none).
QueueAfterDequeue(q) == IF q = <<>> THEN q ELSE Tail(q)
NextRequest(q) == IF Len(q) >= 2 THEN q[2] ELSE 0

\* _receiveHttpsMessage (one call, all its iterations) started in parser state
\* pst to reach the state final: the parser status, the last network status and
\* the parser state it ends in.  _networkRecv returns OK when the buffer was
\* filled, and TIMEOUT_ERROR or NETWORK_ERROR when the transport returned
\* fewer bytes; what arrived before is parsed all the same, so that the
\* message part or the whole message may be complete with any network
\* status.  The receive may also stop where it was, on a timeout, a network
\* error or a parser error.
RecvOutcomes(pst, final) ==
    {[status |-> OK, net |-> n, pst |-> p] :
        n \in NetStatuses, p \in {final, PARSER_STATE_BODY_COMPLETE}}
    \cup {[status |-> OK, net |-> n, pst |-> pst] : n \in {TIMEOUT_ERROR, NETWORK_ERROR}}
    \cup {[status |-> PARSING_ERROR, net |-> OK, pst |-> pst]}

\* _receiveHttpsBodySync: the body does not fit when the parser did not reach
\* the end of the message.
SyncBodyStatus(status, pst) ==
    IF status = OK /\ pst < PARSER_STATE_BODY_COMPLETE THEN MESSAGE_TOO_LARGE ELSE status

\* _flushHttpsNetworkData: the parser status and the parser state in which the
\* flush ends.  The loop runs until the end of the message, and stops before
\* it on any network status other than OK (a timeout included) and on a
\* parser error.
FlushOutcomes(pst) ==
    IF pst >= PARSER_STATE_BODY_COMPLETE
    THEN {[status |-> OK, pst |-> pst]}
    ELSE {[status |-> OK, pst |-> pst], [status |-> OK, pst |-> PARSER_STATE_BODY_COMPLETE],
          [status |-> PARSING_ERROR, pst |-> pst]}

\* No flush took place.
NoFlush(pst) == [status |-> OK, pst |-> pst]

\* IotHttpsClient_SendSync, cleanup: the value returned.
SendSyncReturn(status, stored) == IF stored /= OK THEN stored ELSE status

\* IotHttpsClient_SendSync, cleanup: *pRespHandle, set to the response of the
\* request before the wait, is cleared when the status stored in the response
\* is not OK.
RespHandle(stored) == IF stored /= OK THEN "NULL" ELSE "set"

----------------------------------------------------------------------------
\* Application: IotHttpsClient_SendAsync / IotHttpsClient_SendSync

\* _scheduleHttpsRequestSend: IotTaskPool_CreateJob on the one
\* taskPoolJobStorage of the connection, then IotTaskPool_Schedule.  A job
\* that the storage held and that had not started is replaced by the new one.
Scheduled(r) ==
    [q \in Reqs |-> IF q = r THEN "sched"
                    ELSE IF jobPc[q] = "sched" THEN "lost" ELSE jobPc[q]]

\* The storage is re-created while a job that uses it is pending or running:
\* the task pool is used outside its contract.  The program stops there, or
\* it goes on as Scheduled describes.
Clobbers(r) == \E q \in Reqs \ {r} : jobPc[q] \in {"sched", "write", "hdrs", "body"}

\* SendSync / SendAsync with this result of the transport create schedule the
\* request they add.
\* _implicitlyConnect: the handle is used as it is.
Usable == connHandle = "set" /\ isConnected

WillSchedule(createOk) == IF Usable THEN IsOnlyRequest(reqQ) ELSE createOk

\* _implicitlyConnect + _createHttpsConnection (when not connected) and
\* _addRequestToConnectionReqQ.  createOk is the result of the transport create.
Submit(r, createOk) ==
    LET c == CreateConnection(IF createOk THEN "none" ELSE "create", Resources)
    IN IF Usable
       THEN /\ reqQ' = Append(reqQ, r)
            /\ jobPc' = IF IsOnlyRequest(reqQ) THEN Scheduled(r) ELSE jobPc
            /\ UNCHANGED <<isConnected, respQ, wire, resVars>>
       ELSE /\ connHandle' = c.handle
            /\ isConnected' = c.isConnected
            /\ netConn' = c.netConn
            /\ reqQMutex' = c.reqQMutex
            /\ respQMutex' = c.respQMutex
            /\ respQ' = <<>>
            /\ IF c.status = OK
               THEN /\ reqQ' = <<r>>
                    /\ wire' = <<>>
                    /\ jobPc' = Scheduled(r)
               ELSE /\ reqQ' = <<>>
                    /\ UNCHANGED <<wire, jobPc>>

SendAsync(r, nonPers, createOk, halts) ==
    /\ Running
    /\ r = nextReq
    /\ halts => (WillSchedule(createOk) /\ Clobbers(r))
    /\ IF halts
       THEN Halt("task pool job re-created while in use")
       ELSE /\ nextReq' = r + 1
            /\ isAsync' = [isAsync EXCEPT ![r] = TRUE]
            /\ isNonPersistent' = [isNonPersistent EXCEPT ![r] = nonPers]
            /\ Submit(r, createOk)
            /\ UNCHANGED <<timed, reqCancelled, respCancelled, reqFinishedSending,
                           bodyLength, respVars, jobStatus, rxVars, syncVars, histVars, apiVars, hdrVars, libVars>>

\* When the implicit connect fails SendSync reaches its cleanup with
\* pHttpsResponse still NULL and stores the status through it.
SendSync(r, nonPers, tmo, createOk, halts) ==
    /\ Running
    /\ r = nextReq
    /\ Cardinality({q \in Reqs : q < nextReq /\ ~isAsync[q]}) < NumSync
    /\ halts => ((~Usable /\ ~createOk) \/ (WillSchedule(createOk) /\ Clobbers(r)))
    /\ IF halts
       THEN Halt(IF ~Usable /\ ~createOk THEN "SendSync: NULL response"
                 ELSE "task pool job re-created while in use")
       ELSE /\ nextReq' = r + 1
            /\ isNonPersistent' = [isNonPersistent EXCEPT ![r] = nonPers]
            /\ Submit(r, createOk)
            /\ IF Usable \/ createOk
               THEN /\ semState' = [semState EXCEPT ![r] = "empty"]
                    /\ syncPc' = [syncPc EXCEPT ![r] = "wait"]
                    /\ timed' = [timed EXCEPT ![r] = tmo]
                    /\ respHandle' = [respHandle EXCEPT ![r] = "set"]
                    /\ UNCHANGED syncRet
               ELSE /\ syncPc' = [syncPc EXCEPT ![r] = "ret"]
                    /\ syncRet' = [syncRet EXCEPT ![r] = CONNECTION_ERROR]
                    /\ respHandle' = [respHandle EXCEPT ![r] = RespHandle(CONNECTION_ERROR)]
                    /\ UNCHANGED <<semState, timed>>
            /\ UNCHANGED <<isAsync, reqCancelled, respCancelled, reqFinishedSending,
                           bodyLength, parserState, syncStatus, bodyRxStatus, jobStatus,
                           rxVars, histVars, apiVars, hdrVars, libVars>>

\* IotHttpsClient_SendSync: the semaphore was posted.
SyncWake(r) ==
    /\ Running
    /\ syncPc[r] = "wait"
    /\ semState[r] = "posted"
    /\ semState' = [semState EXCEPT ![r] = "destroyed"]
    /\ syncRet' = [syncRet EXCEPT ![r] = SendSyncReturn(OK, syncStatus[r])]
    /\ respHandle' = [respHandle EXCEPT ![r] = RespHandle(syncStatus[r])]
    /\ syncPc' = [syncPc EXCEPT ![r] = "ret"]
    /\ timed' = [timed EXCEPT ![r] = FALSE]
    /\ UNCHANGED <<connVars, nextReq, isAsync, isNonPersistent, reqCancelled, respCancelled,
                   reqFinishedSending, bodyLength, parserState, syncStatus, bodyRxStatus,
                   jobVars, rxVars, histVars, extVars>>

\* IotHttpsClient_SendSync: IotSemaphore_TimedWait timed out; the request is
\* cancelled, the semaphore destroyed and BUSY stored in the response.
SyncTimeout(r) ==
    /\ Running
    /\ syncPc[r] = "wait"
    /\ timed[r]
    /\ semState[r] = "empty"
    /\ reqCancelled' = [reqCancelled EXCEPT ![r] = TRUE]
    /\ respCancelled' = [respCancelled EXCEPT ![r] = TRUE]
    /\ semState' = [semState EXCEPT ![r] = "destroyed"]
    /\ syncStatus' = [syncStatus EXCEPT ![r] = BUSY]
    /\ syncPc' = [syncPc EXCEPT ![r] = "tmo"]
    /\ UNCHANGED <<connVars, nextReq, isAsync, isNonPersistent, timed,
                   reqFinishedSending, bodyLength, parserState, bodyRxStatus, jobVars,
                   rxVars, syncRet, respHandle, histVars, extVars>>

\* IotHttpsClient_SendSync after the timeout: syncStatus is read back from the
\* response, which the receive callback may have written in between.
SyncReturn(r) ==
    /\ Running
    /\ syncPc[r] = "tmo"
    /\ syncRet' = [syncRet EXCEPT ![r] = SendSyncReturn(BUSY, syncStatus[r])]
    /\ respHandle' = [respHandle EXCEPT ![r] = RespHandle(syncStatus[r])]
    /\ syncPc' = [syncPc EXCEPT ![r] = "ret"]
    /\ timed' = [timed EXCEPT ![r] = FALSE]
    /\ UNCHANGED <<connVars, nextReq, isAsync, isNonPersistent, reqCancelled, respCancelled,
                   reqFinishedSending, bodyLength, respVars, jobVars, rxVars, histVars, extVars>>

\* IotHttpsClient_CancelRequestAsync on an asynchronous request in progress.
\* The application cancels a request with one choice of handles.
Cancel(r, hasReq, hasResp) ==
    /\ Running
    /\ r \in InExchange
    /\ isAsync[r]
    /\ ~reqCancelled[r] /\ ~respCancelled[r]
    /\ CancelTarget(hasReq, hasResp) /= "none"
    /\ respCancelled' = IF CancelTarget(hasReq, hasResp) = "resp"
                        THEN [respCancelled EXCEPT ![r] = TRUE] ELSE respCancelled
    /\ reqCancelled' = IF CancelTarget(hasReq, hasResp) = "req"
                       THEN [reqCancelled EXCEPT ![r] = TRUE] ELSE reqCancelled
    /\ readCancel' = [readCancel EXCEPT ![r] = rxPc = "body" /\ rxCur = r]
    /\ UNCHANGED <<connVars, nextReq, isAsync, isNonPersistent, timed,
                   reqFinishedSending, bodyLength, respVars, jobVars, rxVars, syncVars,
                   log, outcome, syncRx, fault, extVars>>

\* IotHttpsClient_Disconnect called by the application on a connected handle.
\* keeps: the application keeps the value returned.
DisconnectApp(keeps) ==
    /\ Running
    /\ Usable
    /\ Disconnected(DisconnectStatus(reqQ, reqFinishedSending))
    /\ apiCall' = IF keeps THEN "Disconnect" ELSE apiCall
    /\ apiRet' = IF keeps THEN DisconnectStatus(reqQ, reqFinishedSending) ELSE apiRet
    /\ UNCHANGED <<apiAcquired, apiReleased>>
    /\ UNCHANGED <<respQ, wire, reqVars, respVars, jobVars, rxVars, syncVars, histVars,
                   hdrVars, libVars>>

\* IotHttpsClient_Connect called by the application, with a connection info
\* or a transport that makes _createHttpsConnection fail at failAt (or not).
\* A handle that is connected is disconnected first; when that gives BUSY the
\* handle is set to NULL and nothing is created.
ConnectApp(failAt) ==
    /\ Running
    /\ LET dst == IF Usable THEN DisconnectStatus(reqQ, reqFinishedSending) ELSE OK
           res == IF Usable THEN DisconnectResources(dst, Resources) ELSE Resources
           c == CreateConnection(failAt, res)
       IN IF dst /= OK
          THEN /\ connHandle' = "NULL"
               /\ isConnected' = FALSE
               /\ reqQ' = <<>>
               /\ netConn' = res.netConn
               /\ reqQMutex' = res.reqQMutex
               /\ respQMutex' = res.respQMutex
               /\ apiRet' = dst
               /\ apiAcquired' = {}
               /\ apiReleased' = {}
               /\ UNCHANGED <<respQ, wire>>
          ELSE /\ connHandle' = c.handle
               /\ isConnected' = IF c.hasConn THEN c.isConnected ELSE isConnected /\ ~Usable
               /\ reqQ' = IF c.hasConn \/ Usable THEN <<>> ELSE reqQ
               /\ respQ' = IF c.hasConn THEN <<>> ELSE respQ
               /\ wire' = IF c.status = OK THEN <<>> ELSE wire
               /\ netConn' = c.netConn
               /\ reqQMutex' = c.reqQMutex
               /\ respQMutex' = c.respQMutex
               /\ apiRet' = c.status
               /\ apiAcquired' = c.acquired
               /\ apiReleased' = c.released
    /\ apiCall' = "Connect"
    /\ UNCHANGED <<reqVars, respVars, jobVars, rxVars, syncVars, histVars, hdrVars, libVars>>

\* What a read through the NULL pHttpsResponse of SendSync's cleanup may give
\* for syncStatus when it does not stop the program: the value the cleanup
\* has just stored there, or whatever that address holds.
StrayReads == {INVALID_PARAMETER, OK, NETWORK_ERROR}

\* IotHttpsClient_SendSync called with a request configured as asynchronous.
\* The parameter check fails before pHttpsResponse is set, and the cleanup
\* stores to and reads from pHttpsResponse->syncStatus through the NULL
\* pointer: the program stops there, or the call returns what it read.
SendSyncAsyncRequest(stored, halts) ==
    /\ Running
    /\ IF halts
       THEN Halt("SendSync: NULL pHttpsResponse on a rejected request")
       ELSE /\ apiCall' = "SendSync"
            /\ apiRet' = SendSyncReturn(INVALID_PARAMETER, stored)
            /\ UNCHANGED <<apiAcquired, apiReleased>>
            /\ UNCHANGED <<connVars, reqVars, respVars, jobVars, rxVars, syncVars, histVars,
                           resVars, hdrVars, libVars>>

\* IotHttpsClient_SendAsync called with a request configured as synchronous.
SendAsyncSyncRequest ==
    /\ Running
    /\ apiCall' = "SendAsync"
    /\ apiRet' = INVALID_PARAMETER
    /\ UNCHANGED <<apiAcquired, apiReleased>>
    /\ UNCHANGED <<connVars, reqVars, respVars, jobVars, rxVars, syncVars, histVars, resVars,
                   hdrVars, libVars>>

----------------------------------------------------------------------------
\* The header space of a request buffer: IotHttpsClient_InitializeRequest and
\* IotHttpsClient_AddHeader.  Names are sequences of characters.  A header
\* value and the other strings are copied with memcpy and enter the code by
\* their length only, so that they are modelled by their length.  A uint32_t
\* is kept as its two 16 bit halves [hi, lo], because 2^32 is beyond the
\* integers of the model checker.

\* x + n without a wrap-around, for a small natural number n.
Plus(x, n) == [hi |-> x.hi + ((x.lo + n) \div Half), lo |-> (x.lo + n) % Half]

\* The conversion of x to uint32_t.
Wrap32(x) == [hi |-> x.hi % Half, lo |-> x.lo]

\* Offsets from pHeaders are kept exactly below 2^16, and as 2^16 from there on.
Advance(cur, n) == IF n.hi > 0 \/ cur + n.lo >= Half THEN Half ELSE cur + n.lo

\* The accepted AddHeader calls on one request are bounded.
MaxHeaders == 2

HTTPS_END_OF_HEADER_LINES_INDICATOR_LENGTH == 2
HTTPS_HEADER_FIELD_SEPARATOR == <<":", " ">>
HTTPS_CONTENT_LENGTH_HEADER == <<"C", "o", "n", "t", "e", "n", "t", "-", "L", "e", "n", "g", "t", "h">>
HTTPS_CONNECTION_HEADER == <<"C", "o", "n", "n", "e", "c", "t", "i", "o", "n">>
HTTPS_HOST_HEADER == <<"H", "o", "s", "t">>
HTTPS_USER_AGENT_HEADER == <<"U", "s", "e", "r", "-", "A", "g", "e", "n", "t">>

\* strlen of the configured IOT_HTTPS_USER_AGENT and of HTTPS_PROTOCOL_VERSION
\* ("HTTP/1.1").
UserAgentLength == 2
ProtocolVersionLength == 8

\* pHeaders, the origin of the offsets.
pHeaders == 0

\* requestUserBufferMinimumSize less sizeof(_httpsRequest_t): the sizeof of
\* "CONNECT / HTTP/1.1", of the User-Agent line and of "Host: \r\n", each with
\* its terminating zero.
MinimumHeaderSpace ==
    (7 + 1 + 1 + 1 + ProtocolVersionLength + 1)
    + (Len(HTTPS_USER_AGENT_HEADER) + Len(HTTPS_HEADER_FIELD_SEPARATOR) + UserAgentLength
       + HTTPS_END_OF_HEADER_LINES_INDICATOR_LENGTH + 1)
    + (Len(HTTPS_HOST_HEADER) + Len(HTTPS_HEADER_FIELD_SEPARATOR)
       + HTTPS_END_OF_HEADER_LINES_INDICATOR_LENGTH + 1)

\* A comparison of names that holds for equal names only.
SameName(pName, header) == pName = header

\* strncmp(pName, header, strlen(header)) == 0: pName starts with header.
StartsWith(pName, header) ==
    Len(pName) >= Len(header) /\ SubSeq(pName, 1, Len(header)) = header

\* IotHttpsClient_AddHeader: the names of the headers the library generates.
AutoGenerated(pName) ==
    \/ StartsWith(pName, HTTPS_CONTENT_LENGTH_HEADER)
    \/ StartsWith(pName, HTTPS_CONNECTION_HEADER)
    \/ StartsWith(pName, HTTPS_HOST_HEADER)
    \/ StartsWith(pName, HTTPS_USER_AGENT_HEADER)

\* _addHeader: additionalLength, computed in uint32_t.
AdditionalLength(nameLen, valueLen) ==
    Wrap32(Plus(valueLen, nameLen + Len(HTTPS_HEADER_FIELD_SEPARATOR)
                          + HTTPS_END_OF_HEADER_LINES_INDICATOR_LENGTH))

\* _addHeader: the check of the space left, with room kept for the last
\* "\r\n" of the headers.
AddHeaderStatus(cur, end, nameLen, valueLen) ==
    LET needed == Wrap32(Plus(AdditionalLength(nameLen, valueLen),
                              HTTPS_END_OF_HEADER_LINES_INDICATOR_LENGTH))
    IN  IF needed.hi > 0 \/ needed.lo + cur > end THEN INSUFFICIENT_MEMORY ELSE OK

\* _addHeader: the bytes the four memcpy write, by which pHeadersCur advances.
LineLength(nameLen, valueLen) ==
    Plus(valueLen, nameLen + Len(HTTPS_HEADER_FIELD_SEPARATOR)
                   + HTTPS_END_OF_HEADER_LINES_INDICATOR_LENGTH)

\* IotHttpsClient_InitializeRequest: the request line, checked with the
\* pathLen of the caller and written with the length of the path used ("/"
\* when pPath is NULL).
RequestLineCheck(methodLen, pathLen) ==
    methodLen + 1 + pathLen + 1 + ProtocolVersionLength
    + HTTPS_END_OF_HEADER_LINES_INDICATOR_LENGTH
RequestLineLength(methodLen, pathLen, pathNull) ==
    methodLen + 1 + (IF pathNull THEN 1 ELSE pathLen) + 1 + ProtocolVersionLength
    + HTTPS_END_OF_HEADER_LINES_INDICATOR_LENGTH

\* IotHttpsClient_InitializeRequest up to the Host header: the status and
\* the header space it leaves.  space is reqUserBuffer.bufferLen less
\* sizeof(_httpsRequest_t).
InitializedHeaders(space, methodLen, pathLen, pathNull, hostLen, hostNull) ==
    LET line == RequestLineLength(methodLen, pathLen, pathNull)
        ua == LineLength(Len(HTTPS_USER_AGENT_HEADER), U32(UserAgentLength))
        host == LineLength(Len(HTTPS_HOST_HEADER), U32(hostLen))
        none == [cur |-> pHeaders, lines |-> <<>>]
        l1 == [cur |-> pHeaders + line, lines |-> <<<<<<>>, U32(line)>>>>]
        l2 == [cur |-> Advance(l1.cur, ua),
               lines |-> Append(l1.lines, <<HTTPS_USER_AGENT_HEADER, U32(UserAgentLength)>>)]
        l3 == [cur |-> Advance(l2.cur, host),
               lines |-> Append(l2.lines, <<HTTPS_HOST_HEADER, U32(hostLen)>>)]
    IN  IF space < MinimumHeaderSpace
        THEN [status |-> INSUFFICIENT_MEMORY, written |-> FALSE, h |-> none]
        ELSE IF RequestLineCheck(methodLen, pathLen) + pHeaders > space
        THEN [status |-> INSUFFICIENT_MEMORY, written |-> TRUE, h |-> none]
        ELSE IF AddHeaderStatus(l1.cur, space, Len(HTTPS_USER_AGENT_HEADER),
                                U32(UserAgentLength)) /= OK
        THEN [status |-> INSUFFICIENT_MEMORY, written |-> TRUE, h |-> l1]
        ELSE IF hostNull
        THEN [status |-> INVALID_PARAMETER, written |-> TRUE, h |-> l2]
        ELSE IF AddHeaderStatus(l2.cur, space, Len(HTTPS_HOST_HEADER), U32(hostLen)) /= OK
        THEN [status |-> INSUFFICIENT_MEMORY, written |-> TRUE, h |-> l2]
        ELSE [status |-> OK, written |-> TRUE, h |-> l3]

\* Inputs of the header workload.
HeaderSpaces == {40, 45, 60, 110}
MethodLengths == {3, 7}
PathLengths == {1, 12}
HostLengths == {1, 9}
HeaderNames ==
    {<<"X", "-", "A">>,
     <<"h", "o", "s", "t">>,
     <<"H", "o", "s", "t">>,
     <<"H", "o", "s", "t", "n", "a", "m", "e">>,
     <<"C", "o", "n", "n", "e", "c", "t", "i", "o", "n">>,
     <<"C", "o", "n", "t", "e", "n", "t", "-", "L", "e", "n", "g", "t", "h">>,
     <<"U", "s", "e", "r", "-", "A", "g", "e", "n", "t">>,
     <<"C", "o", "n", "n">>}
ValueLengths == {U32(0), U32(3), [hi |-> Half - 1, lo |-> Half - 4]}

\* IotHttpsClient_InitializeRequest on a request buffer, with the
\* configuration of the request and of the response buffer valid.  It is the
\* first call of the application.
InitializeRequest(space, methodLen, pathLen, pathNull, hostLen, hostNull) ==
    /\ Running
    /\ apiCall = "none"
    /\ LET i == InitializedHeaders(space, methodLen, pathLen, pathNull, hostLen, hostNull) IN
        /\ reqHandle' = IF i.status = OK THEN "set" ELSE "NULL"
        /\ pHeadersCur' = IF i.written THEN i.h.cur ELSE pHeadersCur
        /\ pHeadersEnd' = IF i.written THEN space ELSE pHeadersEnd
        /\ headerLines' = IF i.written THEN i.h.lines ELSE headerLines
        /\ apiRet' = i.status
    /\ apiCall' = "InitializeRequest"
    /\ UNCHANGED <<hdrName, hdrLen, hdrNull, apiAcquired, apiReleased>>
    /\ UNCHANGED <<connVars, reqVars, respVars, jobVars, rxVars, syncVars, histVars, resVars, libVars>>

\* IotHttpsClient_AddHeader(reqHandle, pName, pValue, len); null: pName or
\* pValue is NULL.  When additionalLength wrapped around and the check
\* passed, the memcpy write past pHeadersEnd: the program stops there, or it
\* goes on with pHeadersCur beyond pHeadersEnd.
AddHeader(pName, len, null, halts) ==
    /\ Running
    /\ LET status == IF null \/ reqHandle = "NULL" \/ AutoGenerated(pName)
                      THEN INVALID_PARAMETER
                      ELSE AddHeaderStatus(pHeadersCur, pHeadersEnd, Len(pName), len)
           cur == Advance(pHeadersCur, LineLength(Len(pName), len))
       IN
        /\ status = OK => Len(headerLines) < 3 + MaxHeaders
        /\ null => (pName = <<>> /\ len = U32(0))
        /\ halts => (status = OK /\ cur > pHeadersEnd)
        /\ IF halts
           THEN Halt("_addHeader: write past pHeadersEnd")
           ELSE /\ pHeadersCur' = IF status = OK THEN cur ELSE pHeadersCur
                /\ headerLines' = IF status = OK THEN Append(headerLines, <<pName, len>>)
                                   ELSE headerLines
                /\ apiCall' = "AddHeader"
                /\ apiRet' = status
                /\ hdrName' = pName
                /\ hdrLen' = len
                /\ hdrNull' = null
                /\ UNCHANGED <<reqHandle, pHeadersEnd, apiAcquired, apiReleased>>
                /\ UNCHANGED <<connVars, reqVars, respVars, jobVars, rxVars, syncVars,
                               histVars, resVars, libVars>>

----------------------------------------------------------------------------
\* The bytes of one request on the transport: _sendHttpsHeaders and
\* _sendHttpsBody as _sendHttpsRequest calls them.  The headers of the request
\* buffer and the body are sent as they are and are modelled by their length;
\* the final headers are formatted by the code and are modelled byte by byte.

HTTPS_MAX_CONTENT_LENGTH_LINE_LENGTH == 26
HTTPS_CONNECTION_KEEP_ALIVE_HEADER_LINE_LENGTH == 24
HTTPS_END_OF_HEADER_LINES_INDICATOR == <<"\r", "\n">>
HTTPS_CONNECTION_KEEP_ALIVE_HEADER_LINE ==
    HTTPS_CONNECTION_HEADER \o HTTPS_HEADER_FIELD_SEPARATOR
    \o <<"k", "e", "e", "p", "-", "a", "l", "i", "v", "e">> \o HTTPS_END_OF_HEADER_LINES_INDICATOR
HTTPS_CONNECTION_CLOSE_HEADER_LINE ==
    HTTPS_CONNECTION_HEADER \o HTTPS_HEADER_FIELD_SEPARATOR
    \o <<"c", "l", "o", "s", "e">> \o HTTPS_END_OF_HEADER_LINES_INDICATOR

\* sizeof(contentLengthHeaderStr) and sizeof(finalHeaders).
ContentLengthHeaderStrSize == HTTPS_MAX_CONTENT_LENGTH_LINE_LENGTH + 1
FinalHeadersSize ==
    HTTPS_MAX_CONTENT_LENGTH_LINE_LENGTH + HTTPS_CONNECTION_KEEP_ALIVE_HEADER_LINE_LENGTH
    + HTTPS_END_OF_HEADER_LINES_INDICATOR_LENGTH

\* The terminating zero snprintf writes, and a byte read from beyond an array.
NUL == "NUL"
Unknown == "?"

DecimalDigit(d) == <<"0", "1", "2", "3", "4", "5", "6", "7", "8", "9">>[d + 1]

\* x divided by ten, with the remainder.
DivTen(x) ==
    LET t == (x.hi % 10) * Half + x.lo
    IN  [q |-> [hi |-> x.hi \div 10, lo |-> t \div 10], r |-> t % 10]

\* The decimal digits of the value of x.
RECURSIVE Decimal(_)
Decimal(x) ==
    IF x.hi = 0 /\ x.lo < 10 THEN <<DecimalDigit(x.lo)>>
    ELSE Append(Decimal(DivTen(x).q), DecimalDigit(DivTen(x).r))

\* 2^32 - x for x /= 0: the magnitude of a negative int.
Negated(x) ==
    IF x.lo = 0 THEN [hi |-> Half - x.hi, lo |-> 0]
    ELSE [hi |-> Half - 1 - x.hi, lo |-> Half - x.lo]

\* snprintf "%d" of a uint32_t: the value is printed as an int.
PrintfD(x) == IF x.hi >= Half \div 2 THEN <<"-">> \o Decimal(Negated(x)) ELSE Decimal(x)

\* _sendHttpsHeaders: what snprintf formats for "%s: %d\r\n"; its return
\* value numWritten is the length of this line, whatever was stored.
FormattedContentLength(contentLength) ==
    HTTPS_CONTENT_LENGTH_HEADER \o HTTPS_HEADER_FIELD_SEPARATOR \o PrintfD(contentLength)
    \o HTTPS_END_OF_HEADER_LINES_INDICATOR

\* Byte i of contentLengthHeaderStr as memcpy reads it after snprintf stored
\* the line cut to the size of the array: the line, the terminating zero, and
\* beyond the array whatever the stack holds.
ContentLengthHeaderStr(line, i) ==
    IF i <= Len(line) /\ i < ContentLengthHeaderStrSize THEN line[i]
    ELSE IF i <= ContentLengthHeaderStrSize THEN NUL
    ELSE Unknown

\* _sendHttpsHeaders: numWritten and the bytes of finalHeaders handed to the
\* second _networkSend.
FinalHeaders(isNP, contentLength) ==
    LET hasLength == contentLength /= U32(0)
        line == IF hasLength THEN FormattedContentLength(contentLength) ELSE <<>>
        connectionHeader == IF isNP THEN HTTPS_CONNECTION_CLOSE_HEADER_LINE
                            ELSE HTTPS_CONNECTION_KEEP_ALIVE_HEADER_LINE
    IN  [line |-> line,
         bytes |-> [i \in 1 .. Len(line) |-> ContentLengthHeaderStr(line, i)]
                   \o connectionHeader \o HTTPS_END_OF_HEADER_LINES_INDICATOR,
         numWritten |-> Len(line) + Len(connectionHeader)
                        + HTTPS_END_OF_HEADER_LINES_INDICATOR_LENGTH]

\* memcpy reads beyond contentLengthHeaderStr or writes beyond finalHeaders.
FinalHeadersFault(f) ==
    Len(f.line) > ContentLengthHeaderStrSize \/ f.numWritten > FinalHeadersSize

\* The requests sent.
HeadersLengths == {41, 60}
ContentLengths ==
    {U32(0), U32(1), U32(42), U32(99999999), U32(100000000), U32(2147483647),
     [hi |-> Half \div 2, lo |-> 0], [hi |-> Half - 1, lo |-> Half - 1]}

\* _sendHttpsRequest reaches _sendHttpsHeaders with a request.
SendBegin(headersLength, isNP, contentLength, hasBody) ==
    /\ Running
    /\ txPc = "idle"
    /\ txReq' = [headersLength |-> headersLength, isNonPersistent |-> isNP,
                 contentLength |-> contentLength, hasBody |-> hasBody]
    /\ txPc' = "headers"
    /\ txStatus' = OK
    /\ txWire' = <<>>
    /\ txFinal' = NoFinal
    /\ UNCHANGED notTx

\* _sendHttpsHeaders.  failAt: the _networkSend that fails (0: none), after
\* it sent a part of its buffer.  halts: the program stops on the access
\* beyond an array.
SendHeaders(failAt, halts) ==
    /\ Running
    /\ txPc = "headers"
    /\ LET f == FinalHeaders(txReq.isNonPersistent, txReq.contentLength) IN
        /\ halts => (failAt /= 1 /\ FinalHeadersFault(f))
        /\ IF halts
           THEN Halt("_sendHttpsHeaders: access beyond the array")
           ELSE /\ txWire' = IF failAt = 1 THEN <<<<"part", "headers">>>>
                              ELSE IF failAt = 2
                              THEN <<<<"headers", txReq.headersLength>>, <<"part", "final">>>>
                              ELSE <<<<"headers", txReq.headersLength>>, <<"final", f.bytes>>>>
                /\ txFinal' = IF failAt = 1 THEN NoFinal
                               ELSE [line |-> f.line, numWritten |-> f.numWritten]
                /\ txStatus' = IF failAt = 0 THEN OK ELSE NETWORK_ERROR
                /\ txPc' = IF failAt = 0 THEN "body" ELSE "done"
                /\ UNCHANGED txReq
                /\ UNCHANGED notTx

\* _sendHttpsBody when pBody is not NULL and bodyLength > 0.
SendBody(fails) ==
    /\ Running
    /\ txPc = "body"
    /\ LET sends == txReq.hasBody /\ txReq.contentLength /= U32(0) IN
        /\ fails => sends
        /\ txWire' = IF ~sends THEN txWire
                      ELSE IF fails THEN Append(txWire, <<"part", "body">>)
                      ELSE Append(txWire, <<"body", txReq.contentLength>>)
        /\ txStatus' = IF fails THEN NETWORK_ERROR ELSE OK
    /\ txPc' = "done"
    /\ UNCHANGED <<txReq, txFinal>>
    /\ UNCHANGED notTx

\* The next request is sent.
SendEnd ==
    /\ Running
    /\ txPc = "done"
    /\ txPc' = "idle"
    /\ UNCHANGED <<txReq, txStatus, txWire, txFinal>>
    /\ UNCHANGED notTx

----------------------------------------------------------------------------
\* IotHttpsClient_WriteRequestBody on one request.

\* The calls of IotHttpsClient_WriteRequestBody on one request are bounded.
MaxWrites == 3

\* The status of IotHttpsClient_WriteRequestBody(reqHandle, pBuf, len,
\* isComplete) on a request with a response.
WriteRequestBodyStatus(req, isComplete) ==
    IF isComplete /= 1 THEN NOT_SUPPORTED
    ELSE IF ~req.isAsync THEN INVALID_PARAMETER
    ELSE IF req.bodyLength > 0 THEN MESSAGE_FINISHED
    ELSE OK

\* IotHttpsClient_InitializeRequest of the request as a synchronous one.
WriteInitSync ==
    /\ Running
    /\ wrReq = NoBody
    /\ wrReq' = [NoBody EXCEPT !.isAsync = FALSE]
    /\ UNCHANGED notWr

WriteRequestBody(pBuf, len, isComplete) ==
    /\ Running
    /\ wrReq.calls < MaxWrites
    /\ LET status == WriteRequestBodyStatus(wrReq, isComplete) IN
        wrReq' = [wrReq EXCEPT
                    !.pBody = IF status = OK THEN pBuf ELSE @,
                    !.bodyLength = IF status = OK THEN len ELSE @,
                    !.calls = @ + 1,
                    !.accepted = IF status = OK THEN @ + 1 ELSE @,
                    !.call = [pBuf |-> pBuf, len |-> len, isComplete |-> isComplete,
                              ret |-> status]]
    /\ UNCHANGED notWr

----------------------------------------------------------------------------
\* IotHttpsClient_ReadHeader on a response whose headers are stored.  The
\* http-parser is external: run over the stored bytes it reports the
\* beginning of the message, each header field and value in their order and
\* the end of the headers, and it stops when a callback returns nonzero.

\* The search of _httpParserOnHeaderFieldCallback and
\* _httpParserOnHeaderValueCallback: the first stored line whose field has
\* strncmp(pReadHeaderField, pLoc, length) == 0 (0: none).
FoundHeader(headers, pName) ==
    LET hits == {i \in 1 .. Len(headers) : StartsWith(pName, headers[i].field)}
    IN  IF hits = {} THEN 0 ELSE CHOOSE i \in hits : \A j \in hits : i <= j

\* parserState after the parser ran over the stored headers in the search:
\* _httpParserOnMessageBeginCallback, and _httpParserOnHeadersCompleteCallback
\* when the search went through all of them.
SearchedParserState(resp, found, parseFails) ==
    IF resp.headers = <<>> THEN resp.parserState
    ELSE IF found = 0 /\ resp.complete /\ ~parseFails THEN PARSER_STATE_HEADERS_COMPLETE
    ELSE PARSER_STATE_IN_HEADERS

\* The responses the application calls IotHttpsClient_ReadHeader on.
StoredHeaders ==
    {<<[field |-> <<"D", "a", "t", "e">>, value |-> "v1", len |-> 3],
       [field |-> <<"E", "T", "a", "g">>, value |-> "v2", len |-> 5]>>,
     <<[field |-> <<"D", "a", "t", "e", "-", "T", "i", "m", "e">>, value |-> "v3", len |-> 2],
       [field |-> <<"D", "a", "t", "e">>, value |-> "v1", len |-> 3]>>,
     <<[field |-> <<"D", "a", "t", "e">>, value |-> "v4", len |-> 4]>>}
ReadNames == {<<"D", "a", "t", "e">>, <<"D", "a", "t", "e", "-", "T", "i", "m", "e">>, <<"D", "a", "t">>, <<"d", "a", "t", "e">>, <<"E", "T", "a", "g">>}

\* The receive callback has stored the headers of a response: the
\* application is in readReadyCallback (during), or the exchange is over.
ResponseReceived(headers, pst, bps, during) ==
    /\ Running
    /\ rdResp = NoResponse
    /\ bps = "FINISHED" => ~during
    /\ rdResp' = [headers |-> headers, complete |-> pst >= PARSER_STATE_HEADERS_COMPLETE,
                  parserState |-> pst, bufferProcessingState |-> bps, during |-> during]
    /\ UNCHANGED <<rdCall, notRd>>

\* IotHttpsClient_ReadHeader(respHandle, pName, pValue, len) on that
\* response; null: pName or pValue is NULL; parseFails: the parser reports
\* an error.
ReadHeader(pName, len, null, parseFails) ==
    /\ Running
    /\ rdResp /= NoResponse
    /\ null => (pName = <<>> /\ len = 0 /\ ~parseFails)
    /\ LET savedState == IF null THEN "NONE" ELSE rdResp.bufferProcessingState
           found == FoundHeader(rdResp.headers, pName)
           status == IF null THEN INVALID_PARAMETER
                     ELSE IF parseFails THEN PARSING_ERROR
                     ELSE IF found = 0 THEN NOT_FOUND
                     ELSE IF rdResp.headers[found].len > len THEN INSUFFICIENT_MEMORY
                     ELSE OK
       IN
        /\ rdResp' = [rdResp EXCEPT
                        !.parserState = IF null THEN @
                                        ELSE SearchedParserState(rdResp, found, parseFails),
                        !.bufferProcessingState = savedState]
        /\ rdCall' = [pName |-> pName, len |-> len, null |-> null, ret |-> status,
                      value |-> IF status = OK THEN rdResp.headers[found].value ELSE "none"]
    /\ UNCHANGED notRd

----------------------------------------------------------------------------
\* The receive side of one exchange on a persistent connection, with the
\* response buffers: _networkReceiveCallback, the parser callbacks and
\* IotHttpsClient_ReadResponseBody.  The bytes of the response body are
\* numbered 1 .. contentLength.  The http-parser is external: it reports the
\* end of the headers, the body bytes it is given and the end of the message,
\* and a parser that a callback stopped with a nonzero return value at the
\* end of the headers reports nothing more.  The server sends no body in
\* response to a HEAD request, and the transport delivers the bytes the
\* server sent as far as the buffer has room for them.

\* Largest declared Content-Length of a response.
MaxContent == 3

Min(a, b) == IF a <= b THEN a ELSE b
BodyBytes(a, b) == [i \in 1 .. (b - a + 1) |-> a + i - 1]

\* _httpParserOnHeadersCompleteCallback: its return value while the header
\* buffer is filled.
HeadersCompleteReturn(resp) ==
    IF resp.method = "HEAD" \/ (~resp.isAsync /\ resp.pBody = "NULL") THEN 1 ELSE 0

\* The parser stops when a callback returns a value other than zero.
ParserHalts(retVal) == retVal /= 0

\* _httpParserOnBodyCallback with the body bytes given.
OnBody(resp, bytes) ==
    LET r == [resp EXCEPT !.parserState = PARSER_STATE_IN_BODY] IN
    IF resp.bufferProcessingState = "FILLING_HEADER_BUFFER" /\ resp.isAsync
    THEN [r EXCEPT !.inHeaderBuf = @ \o bytes]
    ELSE IF resp.bufferProcessingState /= "FINISHED"
            /\ Len(resp.body) + Len(bytes) <= resp.bodyLen
    THEN [r EXCEPT !.body = @ \o bytes]
    ELSE r

\* The parser run over the next n bytes of the body: _httpParserOnBodyCallback
\* and, at the end of the message, _httpParserOnMessageCompleteCallback.
ParsedBody(resp, n) ==
    LET r == IF n > 0 THEN OnBody(resp, BodyBytes(resp.arrived + 1, resp.arrived + n))
             ELSE resp
    IN  [r EXCEPT !.arrived = @ + n,
                  !.parserState = IF resp.arrived + n = resp.contentLength
                                  THEN PARSER_STATE_BODY_COMPLETE ELSE @]

\* _receiveHttpsBody: the receive loop into the room left in the body buffer.
\* _networkRecv returns OK when the buffer was filled and the status short
\* otherwise.
ReceivedBody(resp, short) ==
    LET r == [resp EXCEPT !.bufferProcessingState = "FILLING_BODY_BUFFER"]
        room == resp.bodyLen - Len(resp.body)
        n == IF resp.halted THEN 0 ELSE Min(room, resp.contentLength - resp.arrived)
    IN  IF resp.parserState >= PARSER_STATE_BODY_COMPLETE \/ room = 0 THEN r
        ELSE [(IF resp.halted THEN r ELSE ParsedBody(r, n))
                 EXCEPT !.net = IF n = room THEN OK ELSE short]

\* _networkReceiveCallback dequeues the response of a request and resets
\* it.  bodyLen: the length of the body buffer of a synchronous request (0:
\* pBody is NULL).
BodyReset(method, async, bodyLen, contentLength) ==
    /\ Running
    /\ bdResp.pc = "none"
    /\ async => bodyLen = 0
    /\ bdResp' = [NoExchange EXCEPT
                    !.pc = "headers", !.method = method, !.isAsync = async,
                    !.contentLength = contentLength,
                    !.bufferProcessingState = "FILLING_HEADER_BUFFER",
                    !.pBody = IF bodyLen > 0 THEN "set" ELSE "NULL", !.bodyLen = bodyLen]
    /\ UNCHANGED <<bdApp, notBd>>

\* _receiveHttpsHeaders: the headers arrive, and with them the first k bytes
\* of the body.
BodyReceiveHeaders(k, net) ==
    /\ Running
    /\ bdResp.pc = "headers"
    /\ k <= bdResp.contentLength
    /\ bdResp.method = "HEAD" => k = 0
    /\ LET r == [bdResp EXCEPT !.parserState = PARSER_STATE_HEADERS_COMPLETE,
                               !.net = net, !.pc = "body"]
       IN  bdResp' = IF ParserHalts(HeadersCompleteReturn(bdResp))
                     THEN [r EXCEPT !.halted = TRUE]
                     ELSE ParsedBody(r, k)
    /\ UNCHANGED <<bdApp, notBd>>

\* _receiveHttpsBodySync.
BodyReceiveSync(short) ==
    /\ Running
    /\ bdResp.pc = "body"
    /\ ~bdResp.isAsync
    /\ LET room == bdResp.bodyLen - Len(bdResp.body)
           r == IF bdResp.pBody /= "NULL" /\ room > 0 THEN ReceivedBody(bdResp, short)
                ELSE bdResp
       IN  bdResp' = [r EXCEPT !.status = IF bdResp.pBody = "NULL" THEN OK
                                          ELSE SyncBodyStatus(OK, r.parserState),
                               !.pc = "cleanup"]
    /\ UNCHANGED <<bdApp, notBd>>

\* _receiveHttpsBodyAsync, one iteration: readReadyCallback, in which the
\* application calls IotHttpsClient_ReadResponseBody with a buffer of len
\* bytes (reads) or not.
BodyReadReady(reads, len, short) ==
    /\ Running
    /\ bdResp.pc = "body"
    /\ bdResp.isAsync
    /\ bdResp.count < MaxReadReady
    /\ ~reads => len = 0
    /\ LET given == [bdResp EXCEPT !.pBody = "set", !.bodyLen = len,
                       !.body = SubSeq(bdResp.inHeaderBuf, 1,
                                       Min(len, Len(bdResp.inHeaderBuf)))]
           r == IF ~reads THEN bdResp
                ELSE IF given.bodyLen - Len(given.body) > 0
                THEN [ReceivedBody(given, short) EXCEPT
                         !.bodyRxStatus = ReceivedBody(given, short).net]
                ELSE given
           again == r.parserState < PARSER_STATE_BODY_COMPLETE /\ r.bodyRxStatus = OK
       IN
        /\ again => bdResp.count + 1 < MaxReadReady
        /\ bdResp' = [r EXCEPT !.count = @ + 1, !.status = OK,
                               !.net = IF again THEN @ ELSE r.bodyRxStatus,
                               !.pc = IF again THEN "body" ELSE "cleanup"]
        /\ bdApp' = IF reads
                    THEN [delivered |-> bdApp.delivered \o r.body, passed |-> len,
                          pLen |-> Len(r.body), calls |-> bdApp.calls + 1]
                    ELSE bdApp
    /\ UNCHANGED notBd

\* The cleanup of _networkReceiveCallback for a persistent request: the
\* status stored in the response, and the flush (outcome f).
BodyCleanup(f) ==
    /\ Running
    /\ bdResp.pc = "cleanup"
    /\ f.status = OK
    /\ IF bdResp.halted THEN f = NoFlush(bdResp.parserState)
       ELSE f \in FlushOutcomes(bdResp.parserState)
    /\ bdResp' = [bdResp EXCEPT
                    !.syncStatus = IF bdResp.status /= OK /\ bdResp.net /= OK
                                   THEN bdResp.net ELSE bdResp.status,
                    !.bufferProcessingState = "FINISHED",
                    !.parserState = f.pst, !.pc = "done"]
    /\ UNCHANGED <<bdApp, notBd>>

----------------------------------------------------------------------------
\* _networkRecv and _networkSend.  The transport's receive and send return
\* the number of bytes, 0 for a timeout and a negative value for an error;
\* the code keeps what they return, and its totals, in variables of type
\* size_t (32 bits wide here).  rets: what the calls of the transport
\* return, in their order.

\* Largest buffer length, and largest number of calls of the transport
\* within one call.
MaxBuf == 4
MaxCalls == 3

\* The conversion of an int to size_t.
ToSizeT(v) == IF v < 0 THEN Negated(U32(0 - v)) ELSE U32(v)

\* Unsigned arithmetic and comparison.
Add32(x, y) ==
    [hi |-> (x.hi + y.hi + ((x.lo + y.lo) \div Half)) % Half, lo |-> (x.lo + y.lo) % Half]
Sub32(x, y) == IF y = U32(0) THEN x ELSE Add32(x, Negated(y))
Less32(x, y) == x.hi < y.hi \/ (x.hi = y.hi /\ x.lo < y.lo)

\* A position in a buffer of len bytes, or a length from it on, lies beyond
\* the buffer.
Beyond(total, len) == Less32(U32(len), total)

\* The do-while loop of _networkRecv from numBytesRecvTotal = total on.
RECURSIVE NetworkRecv(_, _, _, _)
NetworkRecv(bufLen, total, rets, calls) ==
    IF rets = <<>> THEN [status |-> "pending", calls |-> calls, wild |-> FALSE]
    ELSE LET numBytesRecv == ToSizeT(Head(rets))
             numBytesRecvTotal == IF Less32(U32(0), numBytesRecv)
                                  THEN Add32(total, numBytesRecv) ELSE total
             wild == Beyond(total, bufLen)
             rest == NetworkRecv(bufLen, numBytesRecvTotal, Tail(rets), calls + 1)
         IN  IF numBytesRecv = U32(0)
             THEN [status |-> TIMEOUT_ERROR, calls |-> calls + 1, wild |-> wild]
             ELSE IF Less32(numBytesRecv, U32(0))
             THEN [status |-> NETWORK_ERROR, calls |-> calls + 1, wild |-> wild]
             ELSE IF Less32(U32(0), numBytesRecv)
                     /\ Less32(U32(0), Sub32(U32(bufLen), numBytesRecvTotal))
             THEN [rest EXCEPT !.wild = @ \/ wild]
             ELSE [status |-> OK, calls |-> calls + 1, wild |-> wild]

\* The while loop of _networkSend from numBytesSentTotal = total on.
RECURSIVE NetworkSend(_, _, _, _)
NetworkSend(sendLength, total, rets, calls) ==
    IF ~Less32(total, U32(sendLength))
    THEN [status |-> IF total /= U32(sendLength) THEN NETWORK_ERROR ELSE OK,
          calls |-> calls, wild |-> FALSE]
    ELSE IF rets = <<>> THEN [status |-> "pending", calls |-> calls, wild |-> FALSE]
    ELSE LET numBytesSent == ToSizeT(Head(rets))
             rest == NetworkSend(sendLength, Add32(total, numBytesSent), Tail(rets),
                                 calls + 1)
         IN  IF numBytesSent = U32(0) \/ Less32(numBytesSent, U32(0))
             THEN [status |-> NETWORK_ERROR, calls |-> calls + 1, wild |-> FALSE]
             ELSE rest

\* What the transport may return when it is asked for the bytes from total
\* on of a buffer of len bytes: an error, and no more bytes than it was
\* asked for.
RECURSIVE Transport(_, _, _)
Transport(len, total, rets) ==
    IF rets = <<>> THEN TRUE
    ELSE /\ Head(rets) <= len - total \/ Beyond(ToSizeT(total), len)
         /\ Transport(len, total + Head(rets), Tail(rets))

Scripts == UNION {[1 .. n -> -1 .. MaxBuf] : n \in 1 .. MaxCalls}

\* One call _networkRecv(pHttpsConnection, pBuf, bufLen).  A call of the
\* transport with a position beyond the buffer is undefined: the program
\* stops there, or it goes on.
NetRecv(bufLen, rets, halts) ==
    /\ Running
    /\ Transport(bufLen, 0, rets)
    /\ LET r == NetworkRecv(bufLen, U32(0), rets, 0) IN
        /\ r.status /= "pending"
        /\ r.calls = Len(rets)
        /\ halts => r.wild
        /\ IF halts THEN Halt("_networkRecv: access beyond the buffer")
           ELSE /\ nwCall' = [op |-> "recv", len |-> bufLen, rets |-> rets,
                              status |-> r.status, calls |-> r.calls, wild |-> r.wild]
                /\ UNCHANGED notNw

\* One call _networkSend(pHttpsConnection, pBuf, len).
NetSend(len, rets) ==
    /\ Running
    /\ Transport(len, 0, rets)
    /\ LET r == NetworkSend(len, U32(0), rets, 0) IN
        /\ r.status /= "pending"
        /\ r.calls = Len(rets)
        /\ nwCall' = [op |-> "send", len |-> len, rets |-> rets, status |-> r.status,
                      calls |-> r.calls, wild |-> r.wild]
    /\ UNCHANGED notNw

----------------------------------------------------------------------------
\* _flushHttpsNetworkData, one iteration of its loop at a time.  The statuses
\* of _networkRecv are those it is declared to return; the parser fails on
\* the flushed bytes, or brings the parser state forward.

\* Largest number of iterations of the flush loop.
MaxFlush == 4

\* The end of _flushHttpsNetworkData: the status returned.
FlushReturnStatus(networkStatus, parserStatus) ==
    IF networkStatus /= TIMEOUT_ERROR THEN networkStatus ELSE parserStatus

\* The call, with the response in the parser state pst: the loop is entered,
\* or the function returns.
FlushBegin(pst) ==
    /\ Running
    /\ flCall.pc = "none"
    /\ flCall' = [NoFlushCall EXCEPT
                    !.pc = IF pst < PARSER_STATE_BODY_COMPLETE THEN "loop" ELSE "done",
                    !.parserState = pst,
                    !.returnStatus = FlushReturnStatus(OK, OK)]
    /\ UNCHANGED notFl

\* One iteration: _networkRecv returns net, the parser fails or ends in the
\* state pst; the loop goes on, or the function returns.
FlushIteration(net, parserFails, pst) ==
    /\ Running
    /\ flCall.pc = "loop"
    /\ pst >= flCall.parserState
    /\ parserFails => pst = flCall.parserState
    /\ LET parserStatus == IF parserFails THEN PARSING_ERROR ELSE OK
           again == parserStatus = OK /\ net = OK /\ pst < PARSER_STATE_BODY_COMPLETE
       IN
        /\ again => Len(flCall.nets) + 1 < MaxFlush
        /\ flCall' = [pc |-> IF again THEN "loop" ELSE "done", parserState |-> pst,
                      networkStatus |-> net, parserStatus |-> parserStatus,
                      returnStatus |-> FlushReturnStatus(net, parserStatus),
                      nets |-> Append(flCall.nets, net)]
    /\ UNCHANGED notFl

----------------------------------------------------------------------------
\* The queue operations of the handlers and the mutexes they take, step by
\* step: the application thread (IotHttpsClient_SendAsync / SendSync,
\* IotHttpsClient_Disconnect), the task pool worker (_sendHttpsRequest) and
\* the receive thread (_networkReceiveCallback) interleave at every lock,
\* unlock and queue operation.  The mutexes exist throughout: their
\* creation in Connect and their destruction in Disconnect are not part of
\* this workload.

\* Number of requests the application adds to the request queue.
MaxQueued == 2

Lock(queue) == [kind |-> "lock", queue |-> queue, op |-> "none"]
Unlock(queue) == [kind |-> "unlock", queue |-> queue, op |-> "none"]
QueueOp(queue, op) == [kind |-> "op", queue |-> queue, op |-> op]

\* _addRequestToConnectionReqQ, called by SendSync and SendAsync.
AddRequestOps ==
    <<Lock("reqQ"), QueueOp("reqQ", "isEmpty"), QueueOp("reqQ", "enqueue"), Unlock("reqQ")>>

\* _sendHttpsRequest: the response is queued.
SendRequestOps == <<Lock("respQ"), QueueOp("respQ", "enqueue"), Unlock("respQ")>>

\* IotHttpsClient_Disconnect.
DisconnectOps ==
    <<Lock("reqQ"), QueueOp("reqQ", "peek"), Unlock("reqQ"),
      QueueOp("reqQ", "removeAll"), QueueOp("reqQ", "removeAll")>>

\* _networkReceiveCallback: the response is dequeued; the cleanup
\* disconnects, or dequeues the request and peeks the next one.
ReceiveOps(disconnects) ==
    <<Lock("respQ"), QueueOp("respQ", "dequeue"), Unlock("respQ")>>
    \o (IF disconnects THEN DisconnectOps
        ELSE <<Lock("reqQ"), QueueOp("reqQ", "dequeue"), QueueOp("reqQ", "peek"),
               Unlock("reqQ")>>)

\* The handlers a thread runs.
Handlers(t) ==
    IF t = "app" THEN {AddRequestOps, DisconnectOps}
    ELSE IF t = "job" THEN {SendRequestOps}
    ELSE {ReceiveOps(FALSE), ReceiveOps(TRUE)}

\* The queue after an operation; item: the item an enqueue adds.
QueueAfter(q, op, item) ==
    IF op = "enqueue" THEN Append(q, item)
    ELSE IF op = "dequeue" THEN QueueAfterDequeue(q)
    ELSE IF op = "removeAll" THEN <<>>
    ELSE q

\* Thread t enters the handler h.
MutexCall(t, h) ==
    /\ Running
    /\ mtx.pc[t] = <<>>
    /\ h \in Handlers(t)
    /\ h = AddRequestOps => mtx.n < MaxQueued
    /\ h = SendRequestOps => mtx.q.reqQ /= <<>> /\ mtx.q.respQ = <<>>
    /\ mtx' = [mtx EXCEPT !.pc[t] = h, !.n = IF h = AddRequestOps THEN @ + 1 ELSE @]
    /\ UNCHANGED <<mtxOp, notMx>>

\* Thread t takes the next step of its handler: IotMutex_Lock waits until the
\* mutex is free.
MutexStep(t) ==
    /\ Running
    /\ mtx.pc[t] /= <<>>
    /\ LET step == Head(mtx.pc[t])
           queue == step.queue
           item == IF queue = "reqQ" THEN mtx.n ELSE Head(mtx.q.reqQ \o <<0>>)
       IN
        /\ step.kind = "lock" => mtx.held[queue] = "none"
        /\ mtx' = [mtx EXCEPT
                     !.pc[t] = Tail(@),
                     !.held[queue] = IF step.kind = "lock" THEN t
                                     ELSE IF step.kind = "unlock" THEN "none" ELSE @,
                     !.q[queue] = IF step.kind = "op" THEN QueueAfter(@, step.op, item)
                                  ELSE @]
        /\ mtxOp' = IF step.kind = "op"
                    THEN [thread |-> t, queue |-> queue, op |-> step.op,
                          held |-> mtx.held[queue] = t]
                    ELSE mtxOp
    /\ UNCHANGED notMx

----------------------------------------------------------------------------
\* Task pool worker: _sendHttpsRequest

\* The cleanup of _sendHttpsRequest: the request has finished sending and a
\* status other than OK is passed to pCallbacks->errorCallback.
JobCleanup(r, st) ==
    /\ reqFinishedSending' = [reqFinishedSending EXCEPT ![r] = TRUE]
    /\ jobStatus' = [jobStatus EXCEPT ![r] = st]
    /\ jobPc' = [jobPc EXCEPT ![r] = "done"]
    /\ log' = IF st /= OK /\ isAsync[r] THEN [log EXCEPT ![r] = Append(@, ErrEv(st))] ELSE log

\* A synchronous request has no callback table (pCallbacks is NULL): the call
\* of the cleanup with a status other than OK is undefined.  The program stops
\* there, or the call is without effect.
JobFaults(r, st) == st /= OK /\ ~isAsync[r]

\* The status of a cancellation check.
CancelCheck(r) == IF ObservedCancelled(r) THEN ASYNC_CANCELLED ELSE OK

\* First cancellation check, queueing of the response, appendHeaderCallback.
JobStart(r, halts) ==
    /\ Running
    /\ jobPc[r] = "sched"
    /\ halts => JobFaults(r, CancelCheck(r))
    /\ IF halts
       THEN Halt("_sendHttpsRequest: NULL pCallbacks")
       ELSE /\ IF CancelCheck(r) /= OK
               THEN /\ JobCleanup(r, CancelCheck(r))
                    /\ UNCHANGED respQ
               ELSE /\ respQ' = Append(respQ, r)
                    /\ reqFinishedSending' = [reqFinishedSending EXCEPT ![r] = FALSE]
                    /\ log' = IF isAsync[r]
                              THEN [log EXCEPT ![r] = Append(@, Ev("appendHeader"))] ELSE log
                    /\ jobPc' = [jobPc EXCEPT ![r] = "write"]
                    /\ UNCHANGED jobStatus
            /\ UNCHANGED <<isConnected, reqQ, wire, nextReq, isAsync, isNonPersistent, timed,
                           reqCancelled, respCancelled, bodyLength, respVars, rxVars,
                           syncVars, outcome, readCancel, syncRx, fault, extVars>>

\* Second cancellation check and writeCallback.  len is the body length the
\* application sets (WriteRequestBody, or the synchronous request's reqData).
JobWrite(r, len, halts) ==
    /\ Running
    /\ jobPc[r] = "write"
    /\ halts => JobFaults(r, CancelCheck(r))
    /\ IF halts
       THEN Halt("_sendHttpsRequest: NULL pCallbacks")
       ELSE /\ IF CancelCheck(r) /= OK
               THEN /\ JobCleanup(r, CancelCheck(r))
                    /\ UNCHANGED bodyLength
               ELSE /\ bodyLength' = [bodyLength EXCEPT ![r] = len]
                    /\ log' = IF isAsync[r]
                              THEN [log EXCEPT ![r] = Append(@, Ev("write"))] ELSE log
                    /\ jobPc' = [jobPc EXCEPT ![r] = "hdrs"]
                    /\ UNCHANGED <<reqFinishedSending, jobStatus>>
            /\ UNCHANGED <<connVars, nextReq, isAsync, isNonPersistent, timed, reqCancelled,
                           respCancelled, respVars, rxVars, syncVars, outcome, readCancel, syncRx, fault, extVars>>

\* _sendHttpsHeaders.  sendOk is the result of the transport; a closed
\* connection sends nothing.
JobSendHeaders(r, sendOk, halts) ==
    /\ Running
    /\ jobPc[r] = "hdrs"
    /\ sendOk => netConn = "open"
    /\ halts => JobFaults(r, IF sendOk THEN OK ELSE NETWORK_ERROR)
    /\ IF halts
       THEN Halt("_sendHttpsRequest: NULL pCallbacks")
       ELSE /\ IF sendOk
               THEN /\ wire' = Append(wire, <<r, "headers">>)
                    /\ log' = IF isAsync[r]
                              THEN [log EXCEPT ![r] = Append(@, Ev("sent"))] ELSE log
                    /\ jobPc' = [jobPc EXCEPT ![r] = "body"]
                    /\ UNCHANGED <<reqFinishedSending, jobStatus>>
               ELSE /\ JobCleanup(r, NETWORK_ERROR)
                    /\ UNCHANGED wire
            /\ UNCHANGED <<isConnected, reqQ, respQ, nextReq, isAsync, isNonPersistent,
                           timed, reqCancelled, respCancelled, bodyLength, respVars, rxVars,
                           syncVars, outcome, readCancel, syncRx, fault, extVars>>

\* The status with which the job ends after the headers: _sendHttpsBody when
\* there is a body, then the third cancellation check.
BodyStatus(r, sendOk) == IF bodyLength[r] > 0 /\ ~sendOk THEN NETWORK_ERROR ELSE CancelCheck(r)

\* _sendHttpsBody, the third cancellation check and the cleanup.
JobSendBody(r, sendOk, halts) ==
    /\ Running
    /\ jobPc[r] = "body"
    /\ sendOk => netConn = "open"
    /\ (bodyLength[r] = 0) => sendOk
    /\ halts => JobFaults(r, BodyStatus(r, sendOk))
    /\ IF halts
       THEN Halt("_sendHttpsRequest: NULL pCallbacks")
       ELSE /\ wire' = IF bodyLength[r] > 0 /\ sendOk
                       THEN Append(wire, <<r, "body">>) ELSE wire
            /\ JobCleanup(r, BodyStatus(r, sendOk))
            /\ UNCHANGED <<isConnected, reqQ, respQ, nextReq, isAsync, isNonPersistent,
                           timed, reqCancelled, respCancelled, bodyLength, respVars, rxVars,
                           syncVars, outcome, readCancel, syncRx, fault, extVars>>

----------------------------------------------------------------------------
\* Transport receive thread: _networkReceiveCallback

\* The response queue is empty: the callback jumps to its cleanup with
\* pCurrentHttpsResponse and pCurrentHttpsRequest NULL and dereferences them.
\* The program stops, or it goes on to the disconnect of the fatal path.
RxNoResponse(halts) ==
    /\ Running
    /\ rxPc = "idle"
    /\ netConn = "open"
    /\ respQ = <<>>
    /\ IF halts
       THEN Halt("_networkReceiveCallback: NULL response")
       ELSE /\ Disconnected(DisconnectStatus(reqQ, reqFinishedSending))
            /\ UNCHANGED <<respQ, wire, reqVars, respVars, jobVars, rxVars, syncVars,
                           histVars, apiVars, hdrVars, libVars>>

\* The response is dequeued; its request has not finished sending (fatal) or
\* the response was cancelled: no data is received.
RxReject ==
    /\ Running
    /\ rxPc = "idle"
    /\ netConn = "open"
    /\ respQ /= <<>>
    /\ LET cur == Head(respQ) IN
        /\ ~reqFinishedSending[cur] \/ ObservedCancelled(cur)
        /\ rxCur' = cur
        /\ rxFatal' = ~reqFinishedSending[cur]
        /\ rxStatus' = IF ~reqFinishedSending[cur] THEN NETWORK_ERROR ELSE ASYNC_CANCELLED
    /\ respQ' = Tail(respQ)
    /\ rxPc' = "cleanup"
    /\ rxParse' = "none"
    /\ UNCHANGED <<isConnected, reqQ, wire, reqVars, respVars, jobVars, rxNet, rxCount,
                   syncVars, histVars, extVars>>

\* The response is dequeued, the parser reset and the headers received
\* (_receiveHttpsHeaders with outcome o).
RxHeaders(o) ==
    /\ Running
    /\ rxPc = "idle"
    /\ netConn = "open"
    /\ respQ /= <<>>
    /\ LET cur == Head(respQ) IN
        /\ reqFinishedSending[cur] /\ ~ObservedCancelled(cur)
        /\ rxCur' = cur
        /\ parserState' = [parserState EXCEPT ![cur] = o.pst]
    /\ respQ' = Tail(respQ)
    /\ rxStatus' = o.status
    /\ rxNet' = o.net
    /\ rxFatal' = (o.status /= OK)
    /\ rxPc' = IF o.status /= OK THEN "cleanup" ELSE "body"
    /\ rxParse' = IF o.status = PARSING_ERROR THEN "headers" ELSE "none"
    /\ UNCHANGED <<isConnected, reqQ, wire, reqVars, syncStatus, bodyRxStatus, semState,
                   jobVars, rxCount, syncVars, histVars, extVars>>

\* _receiveHttpsBodyAsync, one iteration: readReadyCallback, in which the
\* application calls ReadResponseBody (reads, with receive outcome o) or not.
\* The parser status of ReadResponseBody goes to the application only.
RxReadReady(reads, o) ==
    /\ Running
    /\ rxPc = "body"
    /\ isAsync[rxCur]
    /\ rxCount < MaxReadReady
    /\ LET cur == rxCur
           received == reads /\ parserState[cur] < PARSER_STATE_BODY_COMPLETE
           pst == IF received THEN o.pst ELSE parserState[cur]
           net == IF received THEN o.net ELSE bodyRxStatus[cur]
           again == ~ObservedCancelled(cur) /\ pst < PARSER_STATE_BODY_COMPLETE /\ net = OK
       IN
        /\ IF received THEN o \in RecvOutcomes(parserState[cur], PARSER_STATE_BODY_COMPLETE)
                       ELSE o = NoRecv
        /\ again => rxCount + 1 < MaxReadReady
        /\ parserState' = [parserState EXCEPT ![cur] = pst]
        /\ bodyRxStatus' = [bodyRxStatus EXCEPT ![cur] = net]
        /\ log' = [log EXCEPT ![cur] = Logged(@, Ev("readReady"))]
        /\ rxCount' = rxCount + 1
        /\ rxStatus' = IF ObservedCancelled(cur) THEN ASYNC_CANCELLED ELSE OK
        /\ rxNet' = IF again THEN rxNet ELSE net
        /\ rxPc' = IF again THEN "body" ELSE "cleanup"
        /\ rxParse' = IF received /\ o.status = PARSING_ERROR THEN "body" ELSE rxParse
    /\ UNCHANGED <<connVars, reqVars, syncStatus, semState, jobVars, rxCur, rxFatal,
                   syncVars, outcome, readCancel, syncRx, fault, extVars>>

\* _receiveHttpsBodySync.  hasRoom: a body buffer is configured and has room
\* left, so that _receiveHttpsBody runs (outcome o); hasBuffer: pBody /= NULL.
RxBodySync(hasBuffer, hasRoom, o) ==
    /\ Running
    /\ rxPc = "body"
    /\ ~isAsync[rxCur]
    /\ hasRoom => hasBuffer
    /\ LET cur == rxCur
           received == hasRoom /\ parserState[cur] < PARSER_STATE_BODY_COMPLETE
           pst == IF received THEN o.pst ELSE parserState[cur]
           st == IF ~hasBuffer THEN OK
                 ELSE SyncBodyStatus(IF received THEN o.status ELSE OK, pst)
       IN
        /\ IF received THEN o \in RecvOutcomes(parserState[cur], PARSER_STATE_BODY_COMPLETE)
                       ELSE o = NoRecv
        /\ parserState' = [parserState EXCEPT ![cur] = pst]
        /\ rxNet' = IF received THEN o.net ELSE rxNet
        /\ rxStatus' = st
        /\ rxFatal' = (st = PARSING_ERROR)
        /\ rxParse' = IF received /\ o.status = PARSING_ERROR THEN "body" ELSE rxParse
        /\ rxPc' = "cleanup"
    /\ UNCHANGED <<connVars, reqVars, syncStatus, bodyRxStatus, semState, jobVars, rxCur,
                   rxCount, syncVars, histVars, extVars>>

\* At the end the callback posts respFinishedSem of a synchronous response after SendSync
\* timed out and destroyed it: the post is undefined.  The program stops
\* there, or the post is without effect.
PostFaults(r) == ~isAsync[r] /\ semState[r] = "destroyed"

\* The cleanup of _networkReceiveCallback: the error callbacks, then either the
\* disconnect (fatal error or non-persistent request) or the flush (outcome f),
\* the dequeue of the current request and the scheduling of the next one; at
\* the end responseCompleteCallback or the post of the completion semaphore.
\* A cleanup that disconnects on a fatal error only.
RxDisconnectsFatalOnly == rxFatal

\* The cleanup disconnects: a fatal error or a non-persistent request.
RxDisconnects == rxFatal \/ isNonPersistent[rxCur]

\* The cleanup schedules the next request while the job storage is in use.
ScheduleFaults ==
    ~RxDisconnects /\ NextRequest(reqQ) /= 0 /\ Clobbers(NextRequest(reqQ))

RxFinish(f) ==
    /\ LET cur == rxCur
           st == rxStatus
           net == rxNet
           async == isAsync[cur]
           netErr == net /= OK /\ net /= TIMEOUT_ERROR
           disc == RxDisconnects
           next == IF disc THEN 0 ELSE NextRequest(reqQ)
           stored == IF disc /\ ~async THEN net
                     ELSE IF st /= OK /\ net /= OK THEN net ELSE st
           events == (IF netErr /\ async THEN <<ErrEv(net)>> ELSE <<>>)
                     \o (IF st /= OK /\ async THEN <<ErrEv(st)>> ELSE <<>>)
                     \o (IF disc /\ async
                         THEN <<ErrEv(net),
                                <<"connectionClosed", DisconnectStatus(reqQ, reqFinishedSending)>>>>
                         ELSE <<>>)
                     \o (IF async THEN <<Ev("responseComplete")>> ELSE <<>>)
       IN
        /\ IF disc
           THEN /\ f = NoFlush(parserState[cur])
                /\ Disconnected(DisconnectStatus(reqQ, reqFinishedSending))
                /\ UNCHANGED <<parserState, jobPc>>
           ELSE /\ f \in FlushOutcomes(parserState[cur])
                /\ parserState' = [parserState EXCEPT ![cur] = f.pst]
                /\ reqQ' = QueueAfterDequeue(reqQ)
                /\ jobPc' = IF next /= 0 THEN Scheduled(next) ELSE jobPc
                /\ UNCHANGED <<isConnected, resVars>>
        /\ syncStatus' = [syncStatus EXCEPT ![cur] = stored]
        /\ log' = [log EXCEPT ![cur] = @ \o events]
        /\ semState' = IF ~async /\ semState[cur] = "empty"
                       THEN [semState EXCEPT ![cur] = "posted"] ELSE semState
        /\ outcome' = [outcome EXCEPT ![cur] = IF disc THEN "disconnect" ELSE "flush"]
    /\ rxPc' = "idle"
    /\ rxCur' = 0
    /\ rxStatus' = OK
    /\ rxNet' = OK
    /\ rxFatal' = FALSE
    /\ rxCount' = 0
    /\ rxParse' = IF f.status = PARSING_ERROR THEN "flush" ELSE "none"
    /\ syncRx' = IF isAsync[rxCur] THEN syncRx
                  ELSE [syncRx EXCEPT ![rxCur] = [status |-> rxStatus, net |-> rxNet,
                                                  pst |-> parserState[rxCur]]]
    /\ UNCHANGED <<respQ, wire, reqVars, bodyRxStatus, jobStatus, syncVars, readCancel, fault,
                   apiVars, hdrVars, libVars>>

RxCleanup(f, halts) ==
    /\ Running
    /\ rxPc = "cleanup"
    /\ halts => (PostFaults(rxCur) \/ ScheduleFaults)
    /\ IF halts
       THEN Halt(IF PostFaults(rxCur) THEN "_networkReceiveCallback: semaphore destroyed"
                 ELSE "task pool job re-created while in use")
       ELSE RxFinish(f)

----------------------------------------------------------------------------

RecvResults == [status : {OK, PARSING_ERROR}, net : NetStatuses, pst : ParserStates]
FlushResults == [status : {OK, PARSING_ERROR}, pst : ParserStates]

\* Steps of the task pool worker and of the receive thread that every
\* application takes part in.
Worker ==
    \/ \E r \in Reqs, h \in BOOLEAN : JobStart(r, h)
    \/ \E r \in Reqs, len \in BodyLengths, h \in BOOLEAN : JobWrite(r, len, h)
    \/ \E r \in Reqs, ok \in BOOLEAN, h \in BOOLEAN : JobSendHeaders(r, ok, h)
    \/ \E r \in Reqs, ok \in BOOLEAN, h \in BOOLEAN : JobSendBody(r, ok, h)

Receiver ==
    \/ \E h \in BOOLEAN : RxNoResponse(h)
    \/ RxReject
    \/ \E o \in RecvOutcomes(PARSER_STATE_NONE, PARSER_STATE_HEADERS_COMPLETE) : RxHeaders(o)
    \/ \E f \in FlushResults, h \in BOOLEAN : RxCleanup(f, h)

\* An application that uses the asynchronous interface.
NextAsync ==
    \/ \E r \in Reqs, np \in BOOLEAN, ok \in BOOLEAN, h \in BOOLEAN : SendAsync(r, np, ok, h)
    \/ \E r \in Reqs, hasReq \in BOOLEAN, hasResp \in BOOLEAN : Cancel(r, hasReq, hasResp)
    \/ DisconnectApp(FALSE)
    \/ Worker
    \/ Receiver
    \/ \E reads \in BOOLEAN, o \in RecvResults : RxReadReady(reads, o)

\* The asynchronous interface without a call of the application other than
\* IotHttpsClient_SendAsync.
AsyncCore ==
    \/ \E r \in Reqs, np \in BOOLEAN, ok \in BOOLEAN, h \in BOOLEAN : SendAsync(r, np, ok, h)
    \/ Worker
    \/ Receiver
    \/ \E reads \in BOOLEAN, o \in RecvResults : RxReadReady(reads, o)

\* An asynchronous application that also cancels requests.
NextAsyncCancel ==
    \/ AsyncCore
    \/ \E r \in Reqs, hasReq \in BOOLEAN, hasResp \in BOOLEAN : Cancel(r, hasReq, hasResp)

\* An asynchronous application that also disconnects.
NextAsyncDisconnect ==
    \/ AsyncCore
    \/ DisconnectApp(FALSE)

\* An application that uses the synchronous interface.
NextSync ==
    \/ \E r \in Reqs, np \in BOOLEAN, tmo \in BOOLEAN, ok \in BOOLEAN, h \in BOOLEAN :
          SendSync(r, np, tmo, ok, h)
    \/ \E r \in Reqs : SyncWake(r)
    \/ \E r \in Reqs : SyncTimeout(r)
    \/ \E r \in Reqs : SyncReturn(r)
    \/ DisconnectApp(FALSE)
    \/ Worker
    \/ Receiver
    \/ \E hasBuffer \in BOOLEAN, hasRoom \in BOOLEAN, o \in RecvResults :
          RxBodySync(hasBuffer, hasRoom, o)

\* An application that uses the synchronous interface and also passes a
\* request to the interface it was not configured for.
NextApi ==
    \/ NextSync
    \/ \E stored \in StrayReads, h \in BOOLEAN : SendSyncAsyncRequest(stored, h)
    \/ SendAsyncSyncRequest

\* An application that uses the synchronous interface, connects explicitly
\* and keeps what Connect and Disconnect return.
NextConn ==
    \/ NextSync
    \/ \E failAt \in FailSteps : ConnectApp(failAt)
    \/ DisconnectApp(TRUE)

\* An application that initialises one request buffer and adds headers.
NextHeaders ==
    \/ \E space \in HeaderSpaces, methodLen \in MethodLengths, pathLen \in PathLengths,
          pathNull \in BOOLEAN, hostLen \in HostLengths, hostNull \in BOOLEAN :
          InitializeRequest(space, methodLen, pathLen, pathNull, hostLen, hostNull)
    \/ \E pName \in HeaderNames \cup {<<>>}, len \in ValueLengths, null \in BOOLEAN,
          h \in BOOLEAN :
          AddHeader(pName, len, null, h)

\* The send job's transmissions of single requests.
NextSend ==
    \/ \E n \in HeadersLengths, np \in BOOLEAN, c \in ContentLengths, b \in BOOLEAN :
          SendBegin(n, np, c, b)
    \/ \E failAt \in 0 .. 2, h \in BOOLEAN : SendHeaders(failAt, h)
    \/ \E fails \in BOOLEAN : SendBody(fails)
    \/ SendEnd

\* An application that sets the body of one request.
NextWrite ==
    \/ WriteInitSync
    \/ \E pBuf \in {"NULL", "a", "b"}, len \in {0, 1, 5}, isComplete \in 0 .. 2 :
          WriteRequestBody(pBuf, len, isComplete)

\* An application that reads the headers of one response.
NextRead ==
    \/ \E headers \in StoredHeaders,
          pst \in PARSER_STATE_IN_HEADERS .. PARSER_STATE_BODY_COMPLETE,
          bps \in {"FILLING_HEADER_BUFFER", "FILLING_BODY_BUFFER", "FINISHED"},
          during \in BOOLEAN :
          ResponseReceived(headers, pst, bps, during)
    \/ \E pName \in ReadNames \cup {<<>>}, len \in {0, 3, 5}, null \in BOOLEAN,
          parseFails \in BOOLEAN :
          ReadHeader(pName, len, null, parseFails)

\* The receive side of one exchange, with an application that reads the body
\* of an asynchronous response in readReadyCallback.
NextBody ==
    \/ \E method \in {"GET", "HEAD"}, async \in BOOLEAN, bodyLen \in 0 .. MaxContent,
          contentLength \in 0 .. MaxContent :
          BodyReset(method, async, bodyLen, contentLength)
    \/ \E k \in 0 .. MaxContent, net \in {OK, TIMEOUT_ERROR} : BodyReceiveHeaders(k, net)
    \/ \E short \in {TIMEOUT_ERROR, NETWORK_ERROR} : BodyReceiveSync(short)
    \/ \E reads \in BOOLEAN, len \in 0 .. MaxContent, short \in {TIMEOUT_ERROR, NETWORK_ERROR} :
          BodyReadReady(reads, len, short)
    \/ \E f \in FlushResults : BodyCleanup(f)

\* The threads at their queue operations.
NextMutex ==
    \/ \E t \in {"app", "job", "rx"} : \E h \in Handlers(t) : MutexCall(t, h)
    \/ \E t \in {"app", "job", "rx"} : MutexStep(t)

\* The calls of the transport layer.
NextNet ==
    \/ \E bufLen \in 1 .. MaxBuf, rets \in Scripts, halts \in BOOLEAN :
          NetRecv(bufLen, rets, halts)
    \/ \E len \in 1 .. MaxBuf, rets \in Scripts : NetSend(len, rets)

\* The flush of the rest of one response.
NextFlush ==
    \/ \E pst \in ParserStates : FlushBegin(pst)
    \/ \E net \in NetStatuses, parserFails \in BOOLEAN, pst \in ParserStates :
          FlushIteration(net, parserFails, pst)

\* An asynchronous application whose writeCallback may leave the request
\* without a body.
NextAsyncNoBody ==
    \/ AsyncCore
    \/ \E r \in Reqs, h \in BOOLEAN : JobWrite(r, 0, h)

Next ==
    \/ NextAsync \/ NextSync \/ NextApi \/ NextConn \/ NextHeaders \/ NextSend \/ NextWrite
    \/ NextRead \/ NextBody \/ NextMutex \/ NextNet \/ NextFlush \/ NextAsyncNoBody

Spec == Init /\ [][Next]_vars
SpecAsync == Init /\ [][NextAsync]_vars
SpecAsyncCancel == Init /\ [][NextAsyncCancel]_vars
SpecAsyncDisconnect == Init /\ [][NextAsyncDisconnect]_vars
SpecSync == Init /\ [][NextSync]_vars
SpecApi == Init /\ [][NextApi]_vars
SpecConn == Init /\ [][NextConn]_vars
SpecHeaders == Init /\ [][NextHeaders]_vars
SpecSend == Init /\ [][NextSend]_vars
SpecWrite == Init /\ [][NextWrite]_vars
SpecRead == Init /\ [][NextRead]_vars
SpecBody == Init /\ [][NextBody]_vars
SpecMutex == Init /\ [][NextMutex]_vars
SpecNet == Init /\ [][NextNet]_vars
SpecFlush == Init /\ [][NextFlush]_vars

\* The steps of the receive thread on a response that is queued or dequeued:
\* the server answers what it was sent and the transport invokes the receive
\* callback, which runs to its end.  Data that no request asked for
\* (RxNoResponse) is not owed by anyone.
ReceiverOwed ==
    \/ RxReject
    \/ \E o \in RecvOutcomes(PARSER_STATE_NONE, PARSER_STATE_HEADERS_COMPLETE) : RxHeaders(o)
    \/ \E f \in FlushResults, h \in BOOLEAN : RxCleanup(f, h)
    \/ \E reads \in BOOLEAN, o \in RecvResults : RxReadReady(reads, o)

\* The task pool runs every job that was scheduled (IotTaskPool_ScheduleDeferred
\* with no delay) and a job runs to its end.
FairAsyncCancel == SpecAsyncCancel /\ WF_vars(Worker) /\ WF_vars(ReceiverOwed)

SpecAsyncNoBody == Init /\ [][NextAsyncNoBody]_vars

\* An application that only sends asynchronous requests to a server that
\* sends nothing but its answers, under the same scheduling.
NextAsyncAnswered ==
    \/ \E r \in Reqs, np \in BOOLEAN, ok \in BOOLEAN, h \in BOOLEAN : SendAsync(r, np, ok, h)
    \/ Worker
    \/ ReceiverOwed
SpecAsyncAnswered == Init /\ [][NextAsyncAnswered]_vars
FairAsyncAnswered == SpecAsyncAnswered /\ WF_vars(Worker) /\ WF_vars(ReceiverOwed)

----------------------------------------------------------------------------
\* Properties

\* A cancellation was requested for request r, through either handle.
Cancelled(r) == reqCancelled[r] \/ respCancelled[r]

\* The positions of event e in the history l.
Occurrences(l, e) == {i \in 1 .. Len(l) : l[i] = e}

\* The place of a per-phase event in the order of one exchange (0: other events).
PhaseRank(e) ==
    CASE e = Ev("appendHeader") -> 1
      [] e = Ev("write") -> 2
      [] e = Ev("sent") -> 3
      [] e = Ev("readReady") -> 4
      [] e = Ev("responseComplete") -> 5
      [] OTHER -> 0

\* The exchange of request q is over: its response was parsed to the end, or
\* the exchange was terminated by a cancellation or an error.
ExchangeOver(q) ==
    \/ parserState[q] = PARSER_STATE_BODY_COMPLETE
    \/ Cancelled(q)
    \/ jobStatus[q] /= OK
    \/ syncStatus[q] /= OK
    \/ \E i \in 1 .. Len(log[q]) : log[q][i][1] = "error"

\* C1: the requests of one connection reach the wire in the order of their
\* submission, the headers of a request before its body, and the bytes of two
\* requests are never interleaved.
FifoWireOrder ==
    \A i, j \in 1 .. Len(wire) :
        i < j => \/ wire[i][1] < wire[j][1]
                 \/ wire[i][1] = wire[j][1] /\ wire[i][2] = "headers" /\ wire[j][2] = "body"

\* C2: no pipelining: when bytes of a request follow bytes of another request
\* on the wire, the response to the earlier one has reached BODY_COMPLETE or
\* its exchange has been terminated.
NoPipelining ==
    \A i, j \in 1 .. Len(wire) :
        (i < j /\ wire[i][1] /= wire[j][1]) => ExchangeOver(wire[i][1])

\* C3: at most one send job of the connection is scheduled or running at any
\* instant, and no pending job lost the job storage to another request.
SingleSendJob ==
    /\ Cardinality({r \in Reqs : jobPc[r] \in {"sched", "write", "hdrs", "body"}}) <= 1
    /\ \A r \in Reqs : jobPc[r] /= "lost"

\* C4: within one asynchronous request appendHeaderCallback, writeCallback,
\* the first byte on the wire, readReadyCallback and responseCompleteCallback
\* occur in this order: no later one ever happens before an earlier one.
CallbackOrder ==
    \A r \in Reqs : \A i, j \in 1 .. Len(log[r]) :
        (i < j /\ PhaseRank(log[r][i]) > 0 /\ PhaseRank(log[r][j]) > 0)
            => PhaseRank(log[r][i]) <= PhaseRank(log[r][j])

\* C5: once errorCallback has been invoked for a request, none of
\* appendHeaderCallback, writeCallback, readReadyCallback and
\* responseCompleteCallback is invoked for it afterwards.
ErrorSupersedes ==
    \A r \in Reqs : \A i, j \in 1 .. Len(log[r]) :
        (i < j /\ log[r][i][1] = "error")
            => log[r][j][1] \notin {"appendHeader", "write", "readReady", "responseComplete"}

\* C6: when CancelRequestAsync was called on an asynchronous request before its
\* send job is dispatched, the dispatch delivers exactly one
\* errorCallback(ASYNC_CANCELLED), ends the job and no byte of the request is
\* on the wire.
CancelBeforeDispatch ==
    [][\A r \in Reqs :
          (/\ isAsync[r] /\ Cancelled(r)
           /\ jobPc[r] = "sched" /\ jobPc'[r] /= "sched"
           /\ fault' = "none")
          => /\ jobPc'[r] = "done"
             /\ Cardinality(Occurrences(log'[r], ErrEv(ASYNC_CANCELLED))) = 1
             /\ \A i \in 1 .. Len(wire') : wire'[i][1] /= r]_vars

\* C7: a cancellation is observed whichever handle it was requested through:
\* the next check-point of the send job, and the end of the next
\* readReadyCallback, terminate the exchange with ASYNC_CANCELLED.
CancelObserved ==
    [][\A r \in Reqs :
          (isAsync[r] /\ Cancelled(r) /\ fault' = "none")
          => /\ (jobPc[r] \in {"sched", "write"} /\ jobPc'[r] /= jobPc[r])
                    => (jobPc'[r] = "done" /\ jobStatus'[r] = ASYNC_CANCELLED)
             /\ (rxPc = "body" /\ rxCur = r /\ rxCount' = rxCount + 1)
                    => (rxPc' = "cleanup" /\ rxStatus' = ASYNC_CANCELLED)]_vars

\* C8: when an asynchronous request on a persistent connection, sent and
\* answered without an error so far, is cancelled during a readReadyCallback,
\* the receive loop ends at the end of that
\* callback with ASYNC_CANCELLED, and the cleanup that follows reports
\* ASYNC_CANCELLED, flushes the response and schedules the next request of the
\* queue.
CancelDuringReadReady ==
    [][\A r \in Reqs :
          (/\ isAsync[r] /\ ~isNonPersistent[r] /\ readCancel[r]
           /\ jobStatus[r] = OK /\ rxNet = OK
           /\ rxCur = r /\ fault' = "none")
          => /\ (rxPc = "body" /\ rxCount' = rxCount + 1)
                    => (rxPc' = "cleanup" /\ rxStatus' = ASYNC_CANCELLED)
             /\ (rxPc = "cleanup" /\ rxPc' = "idle")
                    => /\ rxStatus = ASYNC_CANCELLED
                       /\ Occurrences(log'[r], ErrEv(ASYNC_CANCELLED)) /= {}
                       /\ outcome'[r] = "flush"
                       /\ NextRequest(reqQ) /= 0 => jobPc'[NextRequest(reqQ)] = "sched"]_vars

\* C9: a send-path error ends the send job and is delivered to the caller: the
\* failing step invokes errorCallback with that error for an asynchronous
\* request; for a synchronous request SendSync, still waiting when the send
\* failed, leaves its wait by returning that error.
SendErrorDelivered ==
    [][\A r \in Reqs :
          fault' = "none"
          => /\ (/\ isAsync[r] /\ jobPc[r] \in {"hdrs", "body"}
                 /\ jobPc'[r] = "done" /\ jobStatus'[r] = NETWORK_ERROR)
                    => Occurrences(log'[r], ErrEv(NETWORK_ERROR)) /= {}
             /\ (/\ ~isAsync[r] /\ jobPc[r] = "done" /\ jobStatus[r] = NETWORK_ERROR
                 /\ syncPc[r] = "wait" /\ syncPc'[r] /= "wait")
                    => (syncPc'[r] = "ret" /\ syncRet'[r] = NETWORK_ERROR)]_vars

\* C10: SendSync whose timed wait ran out returns BUSY and has cancelled the
\* request; SendSync without a timeout returns once the receive callback has
\* posted the semaphore, and returns the syncStatus the callback stored.
SendSyncTimeout ==
    [][\A r \in Reqs :
          /\ (syncPc[r] = "tmo" /\ syncPc'[r] = "ret")
                => (syncRet'[r] = BUSY /\ reqCancelled[r] /\ respCancelled[r])
          /\ (syncPc[r] = "wait" /\ ~timed[r] /\ syncPc'[r] = "ret")
                => (semState[r] = "posted" /\ syncRet'[r] = syncStatus[r])]_vars

\* C11: SendSync called with a request configured as asynchronous returns
\* INVALID_PARAMETER and leaves the connection, the queues, the send job and
\* every response context as they were; SendAsync called with a synchronous
\* request returns INVALID_PARAMETER with the queues unchanged.
MismatchedSendRejected ==
    [][/\ ((apiCall' = "SendSync" /\ <<apiCall, apiRet>> /= <<apiCall', apiRet'>>)
             \/ fault' = "SendSync: NULL pHttpsResponse on a rejected request")
           => /\ fault' = "none"
              /\ apiRet' = INVALID_PARAMETER
              /\ UNCHANGED <<connVars, jobVars, respVars>>
       /\ (apiCall' = "SendAsync" /\ <<apiCall, apiRet>> /= <<apiCall', apiRet'>>)
           => /\ apiRet' = INVALID_PARAMETER
              /\ UNCHANGED <<reqQ, respQ>>]_vars

\* C12: Disconnect clears isConnected and closes the transport; it returns
\* BUSY exactly when the head of the request queue has not finished sending,
\* and then destroys neither the transport nor the two mutexes; otherwise it
\* returns OK and destroys the closed transport and both mutexes.
DisconnectContract ==
    [][(apiCall' = "Disconnect" /\ apiCall /= "Disconnect")
       => LET busy == reqQ /= <<>> /\ ~reqFinishedSending[Head(reqQ)]
          IN /\ ~isConnected'
             /\ apiRet' = (IF busy THEN BUSY ELSE OK)
             /\ busy => /\ netConn' = "closed"
                        /\ UNCHANGED <<reqQMutex, respQMutex>>
             /\ ~busy => /\ netConn' = "destroyed"
                         /\ reqQMutex' = "destroyed"
                         /\ respQMutex' = "destroyed"]_vars

\* C12 witness: a Disconnect that found the head request still sending.
DisconnectContractWitness ==
    /\ apiCall = "Disconnect" /\ apiRet = BUSY
    /\ ~isConnected /\ netConn = "closed"
    /\ reqQMutex = "created" /\ respQMutex = "created"

\* C13: when Connect fails at a step of _createHttpsConnection, exactly the
\* resources acquired so far are released and the handle is NULL.
ConnectFailureReleases ==
    [][(/\ apiCall' = "Connect" /\ apiVars' /= apiVars
        /\ apiRet' \notin {OK, BUSY})
       => /\ apiReleased' = apiAcquired'
          /\ connHandle' = "NULL"
          /\ "netConn" \in apiAcquired' => netConn' = "destroyed"
          /\ "netConn" \notin apiAcquired' => netConn' \in {"none", netConn, "destroyed"}
          /\ "reqQMutex" \in apiAcquired' => reqQMutex' = "destroyed"
          /\ "respQMutex" \notin apiAcquired'
          /\ "reqQMutex" \notin apiAcquired' => reqQMutex' \in {reqQMutex, "destroyed"}]_vars

\* C13 witness: Connect failed after the transport and the request queue
\* mutex had been created.
ConnectFailureReleasesWitness ==
    /\ apiCall = "Connect" /\ apiRet = INTERNAL_ERROR
    /\ apiAcquired = {"netConn", "reqQMutex"} /\ apiReleased = apiAcquired
    /\ connHandle = "NULL" /\ netConn = "destroyed" /\ reqQMutex = "destroyed"

\* The number of connectionClosedCallback invocations in the history l.
ClosedCount(l) == Cardinality({i \in 1 .. Len(l) : l[i][1] = "connectionClosed"})

\* C14: when the receive callback ends the exchange of an asynchronous
\* non-persistent request whose response was received to the end without an
\* error, it invokes responseCompleteCallback last, the connection is then
\* disconnected and connectionClosedCallback was invoked exactly once.
NonPersistentCloses ==
    [][\A r \in Reqs :
          (/\ isAsync[r] /\ isNonPersistent[r]
           /\ rxPc = "cleanup" /\ rxCur = r /\ rxPc' = "idle"
           /\ rxStatus = OK /\ rxNet = OK /\ ~rxFatal
           /\ parserState[r] = PARSER_STATE_BODY_COMPLETE
           /\ fault' = "none")
          => /\ log'[r][Len(log'[r])] = Ev("responseComplete")
             /\ ~isConnected'
             /\ netConn' \in {"closed", "destroyed"}
             /\ ClosedCount(log'[r]) = 1]_vars

\* C14 witness: such an exchange has ended.
NonPersistentClosesWitness ==
    \E r \in Reqs :
        /\ isAsync[r] /\ isNonPersistent[r] /\ outcome[r] = "disconnect"
        /\ parserState[r] = PARSER_STATE_BODY_COMPLETE /\ syncStatus[r] = OK
        /\ log[r] /= <<>> /\ log[r][Len(log[r])] = Ev("responseComplete")
        /\ Occurrences(log[r], Ev("readReady")) /= {}
        /\ ~isConnected /\ ClosedCount(log[r]) = 1

\* C15: when the receive callback ends an exchange in which the parser
\* failed (in the header receive, in the body receive or in the flush), the
\* connection is disconnected; when the last receive of the exchange timed
\* out and the parser never failed, a persistent request's connection is left
\* as it was.
ParsingErrorDisconnects ==
    [][(rxPc = "cleanup" /\ rxPc' = "idle" /\ fault' = "none")
          => /\ (rxParse /= "none" \/ rxParse' = "flush") => ~isConnected'
             /\ (/\ rxNet = TIMEOUT_ERROR /\ rxParse = "none" /\ rxParse' = "none"
                 /\ ~isNonPersistent[rxCur])
                => UNCHANGED <<isConnected, netConn>>]_vars

\* C16: when the receive callback of a synchronous request found the body
\* buffer full (the network status is OK) before the parser reached the end of
\* the message, the SendSync call that waited for the response of the request
\* (sent without an error) returns MESSAGE_TOO_LARGE, whether the request is
\* persistent or not.
BodyTooLargeReported ==
    [][\A r \in Reqs :
          (/\ ~isAsync[r] /\ syncPc[r] = "wait" /\ syncPc'[r] = "ret"
           /\ jobStatus[r] = OK /\ outcome[r] /= "none"
           /\ syncRx[r].status = MESSAGE_TOO_LARGE /\ syncRx[r].net = OK
           /\ fault' = "none")
          => syncRet'[r] = MESSAGE_TOO_LARGE]_vars

\* C17: when SendSync returns MESSAGE_TOO_LARGE for a persistent request, the
\* caller holds the response handle of the request (not NULL), and the
\* receive callback ended the exchange with the flush of the rest of the
\* response, not with a disconnect.
TooLargeKeepsResponse ==
    [][\A r \in Reqs :
          (/\ ~isAsync[r] /\ ~isNonPersistent[r]
           /\ syncPc[r] = "wait" /\ syncPc'[r] = "ret"
           /\ syncRet'[r] = MESSAGE_TOO_LARGE
           /\ jobStatus[r] = OK /\ outcome[r] /= "none"
           /\ fault' = "none")
          => (respHandle'[r] = "set" /\ outcome[r] = "flush")]_vars

\* C18: TIMEOUT_ERROR reaches the application only when nothing of the
\* response was received: SendSync returns it only when the receive callback
\* ended with the parser in its initial state, and the cleanup of the receive
\* callback passes it to errorCallback of an asynchronous request only then.
\* A response received to its end is never reported with TIMEOUT_ERROR.
TimeoutOnlyWithoutData ==
    [][/\ \A r \in Reqs :
            (/\ ~isAsync[r] /\ syncPc[r] = "wait" /\ syncPc'[r] = "ret"
             /\ jobStatus[r] = OK /\ outcome[r] /= "none"
             /\ syncRet'[r] = TIMEOUT_ERROR
             /\ fault' = "none")
            => syncRx[r].pst = PARSER_STATE_NONE
       /\ (/\ rxPc = "cleanup" /\ rxPc' = "idle" /\ fault' = "none"
           /\ isAsync[rxCur]
           /\ Occurrences(log'[rxCur], ErrEv(TIMEOUT_ERROR)) /= {})
          => parserState[rxCur] = PARSER_STATE_NONE]_vars

\* The length of "Content-Length: 4294967295\r\nConnection: keep-alive\r\n\r\n".
RESERVED_TAIL ==
    Len(
    <<"C", "o", "n", "t", "e", "n", "t", "-", "L", "e", "n", "g", "t", "h",
       ":", " ", "4", "2", "9", "4", "9", "6", "7", "2", "9", "5", "\r", "\n",
       "C", "o", "n", "n", "e", "c", "t", "i", "o", "n", ":", " ", "k", "e",
       "e", "p", "-", "a", "l", "i", "v", "e", "\r", "\n", "\r", "\n">>)

\* p is a prefix of the name s, character by character.
IsPrefix(p, s) == Len(p) <= Len(s) /\ \A i \in 1 .. Len(p) : s[i] = p[i]

\* The name s starts with the name of a header the library manages itself.
HasAutoPrefix(s) ==
    \E p \in {HTTPS_CONTENT_LENGTH_HEADER, HTTPS_CONNECTION_HEADER, HTTPS_HOST_HEADER,
               HTTPS_USER_AGENT_HEADER} : IsPrefix(p, s)

\* C19: after a successful InitializeRequest and after every accepted
\* AddHeader pHeaders <= pHeadersCur <= pHeadersEnd - RESERVED_TAIL; AddHeader
\* with a name it does not reject returns INSUFFICIENT_MEMORY whenever the new
\* line plus RESERVED_TAIL exceeds pHeadersEnd - pHeadersCur; and nothing is
\* written past pHeadersEnd.
RequestBufferDiscipline ==
    [][/\ (/\ apiCall' \in {"InitializeRequest", "AddHeader"} /\ apiRet' = OK
           /\ reqHandle' = "set" /\ fault' = "none")
          => (pHeaders <= pHeadersCur' /\ pHeadersCur' <= pHeadersEnd' - RESERVED_TAIL)
       /\ (/\ apiCall' = "AddHeader" /\ fault' = "none"
           /\ reqHandle = "set" /\ ~hdrNull' /\ ~HasAutoPrefix(hdrName')
           /\ \/ hdrLen'.hi > 0
              \/ Len(hdrName') + 2 + hdrLen'.lo + 2 + RESERVED_TAIL
                    > pHeadersEnd - pHeadersCur)
          => apiRet' = INSUFFICIENT_MEMORY
       /\ fault' /= "_addHeader: write past pHeadersEnd"
       /\ pHeadersCur' <= pHeadersEnd']_vars

\* C20: AddHeader returns INVALID_PARAMETER for every name that starts with
\* Content-Length, Connection, Host or User-Agent; a call that fails returns
\* INVALID_PARAMETER or INSUFFICIENT_MEMORY and leaves the header lines and
\* pHeadersCur as they were; a call with any other name whose line fits
\* (with the two bytes of the last "\r\n" left) appends exactly the line of
\* that name and value and advances pHeadersCur by the length of the line.
AddHeaderContract ==
    [][(apiCall' = "AddHeader" /\ fault' = "none")
          => LET name == hdrName'
                 line == Len(hdrName') + 2 + hdrLen'.lo + 2
                 valid == reqHandle = "set" /\ ~hdrNull'
             IN  /\ (valid /\ HasAutoPrefix(name)) => apiRet' = INVALID_PARAMETER
                 /\ apiRet' /= OK
                    => (/\ apiRet' \in {INVALID_PARAMETER, INSUFFICIENT_MEMORY}
                        /\ UNCHANGED <<headerLines, pHeadersCur>>)
                 /\ (/\ valid /\ ~HasAutoPrefix(name)
                     /\ hdrLen'.hi = 0 /\ line + 2 <= pHeadersEnd - pHeadersCur)
                    => (/\ apiRet' = OK
                        /\ headerLines' = Append(headerLines, <<name, hdrLen'>>)
                        /\ pHeadersCur' = pHeadersCur + line)]_vars

\* C20 witness: "host: " with a value of three bytes was accepted and is the
\* last line, after "Hostname" or another managed name was rejected or not.
AddHeaderContractWitness ==
    /\ apiCall = "AddHeader" /\ apiRet = OK /\ reqHandle = "set"
    /\ hdrName = <<"h", "o", "s", "t">> /\ hdrLen = U32(3)
    /\ Len(headerLines) = 4
    /\ headerLines[4] = <<hdrName, hdrLen>>
    /\ pHeadersCur <= pHeadersEnd - 2

\* The final headers of a request: the Content-Length line with the unsigned
\* decimal length when there is a body length, one Connection line, the
\* empty line.
ExpectedFinal(req) ==
    (IF req.contentLength /= U32(0)
     THEN <<"C", "o", "n", "t", "e", "n", "t", "-", "L", "e", "n", "g", "t", "h", ":", " ">> \o Decimal(req.contentLength) \o <<"\r", "\n">>
     ELSE <<>>)
    \o <<"C", "o", "n", "n", "e", "c", "t", "i", "o", "n", ":", " ">>
    \o (IF req.isNonPersistent THEN <<"c", "l", "o", "s", "e">> ELSE <<"k", "e", "e", "p", "-", "a", "l", "i", "v", "e">>)
    \o <<"\r", "\n", "\r", "\n">>

\* The parts of a request in the order of their transmission.
ExpectedWire(req) ==
    <<<<"headers", req.headersLength>>, <<"final", ExpectedFinal(req)>>>>
    \o (IF req.hasBody /\ req.contentLength /= U32(0)
        THEN <<<<"body", req.contentLength>>>> ELSE <<>>)

\* C21: the send job transmits the header bytes of the request buffer, the
\* Content-Length line with the decimal body length exactly when the length
\* is above zero, one Connection line ("close" for a non-persistent request,
\* "keep-alive" otherwise), the empty line and then the body, in this order;
\* when a send fails, the parts before it were sent and none after it.
SendOrder ==
    (txPc = "done" /\ fault = "none")
        => LET e == ExpectedWire(txReq) IN
           IF txStatus = OK THEN txWire = e
           ELSE \E k \in 0 .. Len(e) - 1 :
                    txWire = SubSeq(e, 1, k) \o <<<<"part", e[k + 1][1]>>>>

\* C22: for every content length and both persistence settings the final
\* headers fit in the 26 + 24 + 2 bytes of the scratch buffer, the
\* Content-Length line fits in 26 characters, and the number in it is the
\* unsigned decimal content length.
FinalHeadersFit ==
    /\ fault /= "_sendHttpsHeaders: access beyond the array"
    /\ (txFinal /= NoFinal /\ fault = "none")
          => /\ txFinal.numWritten <= 26 + 24 + 2
             /\ Len(txFinal.line) <= 26
             /\ txReq.contentLength /= U32(0)
                   => txFinal.line = <<"C", "o", "n", "t", "e", "n", "t", "-", "L", "e", "n", "g", "t", "h", ":", " ">> \o Decimal(txReq.contentLength)
                                       \o <<"\r", "\n">>

\* C23: on an asynchronous request the first IotHttpsClient_WriteRequestBody
\* call with isComplete = 1 stores the pointer and the length and returns OK,
\* whatever the length; every call after it returns MESSAGE_FINISHED and
\* leaves both as they are; a call with isComplete /= 1 returns NOT_SUPPORTED
\* and changes nothing.
WriteBodyOnce ==
    [][(wrReq'.calls = wrReq.calls + 1 /\ wrReq.isAsync /\ fault' = "none")
          => LET c == wrReq'.call
                 kept == wrReq'.pBody = wrReq.pBody /\ wrReq'.bodyLength = wrReq.bodyLength
             IN  /\ c.isComplete /= 1 => (c.ret = NOT_SUPPORTED /\ kept)
                 /\ (c.isComplete = 1 /\ wrReq.accepted = 0)
                       => (c.ret = OK /\ wrReq'.pBody = c.pBuf /\ wrReq'.bodyLength = c.len)
                 /\ (c.isComplete = 1 /\ wrReq.accepted > 0)
                       => (c.ret = MESSAGE_FINISHED /\ kept)]_vars

\* The step is a call of IotHttpsClient_ReadHeader that returned.
ReadHeaderReturns ==
    rdResp /= NoResponse /\ <<rdResp, rdCall>>' /= <<rdResp, rdCall>> /\ fault' = "none"

\* C24: IotHttpsClient_ReadHeader returns OK with the value of the stored
\* header whose field name equals the name asked for when that value fits in
\* len bytes, INSUFFICIENT_MEMORY when it is longer than len, and NOT_FOUND
\* when no stored header has that field name; a stored name that is a proper
\* prefix of the name asked for, or the reverse, is no match.
ReadHeaderFinds ==
    [][(ReadHeaderReturns /\ ~rdCall'.null /\ rdCall'.ret /= PARSING_ERROR)
          => LET c == rdCall'
                 same == {i \in 1 .. Len(rdResp.headers) : rdResp.headers[i].field = c.pName}
             IN  /\ same = {} => c.ret = NOT_FOUND
                 /\ same /= {}
                       => \E i \in same :
                             IF rdResp.headers[i].len > c.len
                             THEN c.ret = INSUFFICIENT_MEMORY
                             ELSE c.ret = OK /\ c.value = rdResp.headers[i].value]_vars

\* C28: while the exchange of a response is in progress parserState never
\* moves backward, whatever the application calls on the response.
ParserStateForward ==
    [][(ReadHeaderReturns /\ rdResp.during)
          => rdResp'.parserState >= rdResp.parserState]_vars

\* C29: IotHttpsClient_ReadHeader on a response leaves bufferProcessingState
\* and the stored headers (pHeadersCur) as they were, on every return path,
\* INVALID_PARAMETER for a NULL name or value included.
ReadHeaderRestores ==
    [][ReadHeaderReturns
          => /\ rdResp'.bufferProcessingState = rdResp.bufferProcessingState
             /\ rdResp'.headers = rdResp.headers]_vars

\* C25: a HEAD request whose response declares a Content-Length other than
\* zero ends with no byte written to the body buffer, with parserState =
\* HEADERS_COMPLETE, and with no error status.
HeadBodySuppressed ==
    (bdResp.pc = "done" /\ bdResp.method = "HEAD" /\ bdResp.contentLength > 0)
        => /\ bdResp.body = <<>>
           /\ bdResp.parserState = PARSER_STATE_HEADERS_COMPLETE
           /\ bdResp.syncStatus = OK

\* C30: the body bytes IotHttpsClient_ReadResponseBody hands to the
\* application of an asynchronous exchange, those that arrived in the header
\* buffer included, are the bytes of the body in their order, each one once
\* and none left out, and *len is the number of bytes written, never more
\* than the length passed in.
HeaderBufferBodyOnce ==
    /\ IsPrefix(bdApp.delivered, BodyBytes(1, bdResp.contentLength))
    /\ bdApp.pLen <= bdApp.passed

\* C27: every operation on the request queue runs while its thread holds
\* reqQMutex, and every operation on the response queue while its thread
\* holds respQMutex.
QueueMutexHeld == mtxOp /= NoOp => mtxOp.held

\* C26: a receive callback that finds the response queue empty disconnects
\* the connection without using a request or response context and without
\* scheduling a request.
EmptyQueueReceive ==
    [][(\E halts \in BOOLEAN : RxNoResponse(halts))
          => /\ fault' = "none"
             /\ ~isConnected'
             /\ jobPc' = jobPc]_vars

\* C31: _networkRecv calls the transport once and returns OK for a positive
\* count, TIMEOUT_ERROR for 0 and NETWORK_ERROR for a negative value;
\* _networkSend repeats the send until the whole length is sent, and returns
\* NETWORK_ERROR when the transport returns 0 before that.
NetworkStatusMapping ==
    LET last == nwCall.rets[Len(nwCall.rets)]
        RECURSIVE Sum(_)
        Sum(q) == IF q = <<>> THEN 0 ELSE Head(q) + Sum(Tail(q))
    IN  /\ nwCall.op = "recv"
            => /\ nwCall.calls = 1
               /\ nwCall.status = IF last > 0 THEN OK
                                  ELSE IF last = 0 THEN TIMEOUT_ERROR ELSE NETWORK_ERROR
        /\ (nwCall.op = "send" /\ \A i \in 1 .. Len(nwCall.rets) : nwCall.rets[i] >= 0)
            => /\ Sum(nwCall.rets) = nwCall.len => nwCall.status = OK
               /\ last = 0 => nwCall.status = NETWORK_ERROR

\* C32: _flushHttpsNetworkData returns PARSING_ERROR whenever the parser
\* failed, the network error when a network error other than a timeout
\* occurred, and OK when the flush ended at the end of the message or by a
\* timeout.
FlushReturns ==
    flCall.pc = "done"
        => flCall.returnStatus =
              IF flCall.parserStatus = PARSING_ERROR THEN PARSING_ERROR
              ELSE IF flCall.networkStatus = NETWORK_ERROR THEN NETWORK_ERROR
              ELSE OK

\* C33: when IotHttpsClient_Disconnect returns, the request queue and the
\* response queue of the connection are empty.
DisconnectEmptiesQueues ==
    [][(\E keeps \in BOOLEAN : DisconnectApp(keeps))
          => (reqQ' = <<>> /\ respQ' = <<>>)]_vars

\* C34: the response queue holds at most one response, and when the receive
\* callback dequeues a response, the head of the request queue is the
\* request of that response.
QueuesPaired ==
    [][fault' = "none"
          => /\ Len(respQ') <= 1
             /\ (rxPc = "idle" /\ rxPc' /= "idle")
                   => (reqQ /= <<>> /\ Head(reqQ) = rxCur')]_vars

\* Request q waits in the request queue and no job was scheduled for it.
Waiting(q) == Running /\ isConnected /\ (\E i \in 1 .. Len(reqQ) : reqQ[i] = q) /\ jobPc[q] = "idle"

\* C35: when the send job of a request has ended with ASYNC_CANCELLED, every
\* request that waits in the request queue is eventually scheduled (unless
\* the program has stopped or the connection was disconnected).
CancelledJobSchedulesNext ==
    \A r \in Reqs, q \in Reqs :
        (r /= q /\ jobPc[r] = "done" /\ jobStatus[r] = ASYNC_CANCELLED /\ Waiting(q))
            ~> (~Running \/ ~isConnected \/ jobPc[q] /= "idle")

\* Request q was given its terminal notification: responseCompleteCallback or
\* errorCallback for an asynchronous request, the post of respFinishedSem for
\* a synchronous one.
Notified(q) ==
    IF isAsync[q]
    THEN \E i \in 1 .. Len(log[q]) : log[q][i][1] \in {"responseComplete", "error"}
    ELSE semState[q] = "posted"

\* C36: every request that was accepted into the request queue eventually
\* gets its terminal notification (unless the program has stopped), also when
\* the connection is disconnected while it waits.
AcceptedIsNotified ==
    \A q \in Reqs :
        (Running /\ \E i \in 1 .. Len(reqQ) : reqQ[i] = q) ~> (~Running \/ Notified(q))

\* IotHttpsClient_SendSync of request r has destroyed respFinishedSem and
\* returned.
SyncReturned(r) == r < nextReq /\ ~isAsync[r] /\ syncPc[r] = "ret" /\ semState[r] = "destroyed"

\* C37: once IotHttpsClient_SendSync has destroyed the semaphore and returned,
\* the semaphore is not posted and the send job and the receive callback do
\* not write the response context.
NoUseAfterSyncReturn ==
    [][\A r \in Reqs :
          SyncReturned(r)
             => /\ fault' /= "_networkReceiveCallback: semaphore destroyed"
                /\ fault' = "none"
                      => /\ syncStatus'[r] = syncStatus[r]
                         /\ parserState'[r] = parserState[r]
                         /\ bodyRxStatus'[r] = bodyRxStatus[r]]_vars

\* A step that runs IotHttpsClient_Disconnect: the call of the application,
\* or the cleanup of the receive callback.
DisconnectStep ==
    \/ \E keeps \in BOOLEAN : DisconnectApp(keeps)
    \/ RxNoResponse(FALSE)
    \/ rxPc = "cleanup" /\ RxDisconnects /\ \E f \in FlushResults : RxCleanup(f, FALSE)

\* A step that locks reqQMutex outside IotHttpsClient_Disconnect: the dequeue
\* of the finished request in the receive callback.
RequestDequeueStep ==
    rxPc = "cleanup" /\ ~RxDisconnects /\ \E f \in FlushResults : RxCleanup(f, FALSE)

\* A step that locks respQMutex: the send job queues the response.
ResponseEnqueueStep == \E r \in Reqs : jobPc[r] = "sched" /\ JobStart(r, FALSE) /\ respQ' /= respQ

\* C38: the transport and each mutex are destroyed at most once for each
\* creation, and no mutex is locked after it was destroyed.
ResourcesReleasedOnce ==
    [][fault' = "none"
          => /\ DisconnectStep
                   => /\ reqQMutex /= "destroyed"
                      /\ DisconnectStatus(reqQ, reqFinishedSending) = OK
                            => /\ netConn \notin {"destroyed", "destroyed open"}
                               /\ respQMutex /= "destroyed"
             /\ RequestDequeueStep => reqQMutex /= "destroyed"
             /\ ResponseEnqueueStep => respQMutex /= "destroyed"]_vars

\* Every byte of request r was handed to the transport: its headers, and its
\* body when it has one.
AllHanded(r) ==
    /\ \E i \in 1 .. Len(wire) : wire[i] = <<r, "headers">>
    /\ bodyLength[r] = 0 \/ \E i \in 1 .. Len(wire) : wire[i] = <<r, "body">>

\* C39: when every byte of the request was handed to the transport before
\* the receive callback runs, the callback does not take the fatal path of a
\* request that has not finished sending.
SentRequestNotFatal ==
    [][(respQ /= <<>> /\ RxReject /\ rxFatal') => ~AllHanded(Head(respQ))]_vars

\* C40: errorCallback is invoked only for an asynchronous request and only
\* with a status other than OK; an exchange that ends without an error has no
\* errorCallback.
ErrorCallbackOnError ==
    \A r \in Reqs :
        \A i \in 1 .. Len(log[r]) :
            log[r][i][1] = "error" => (isAsync[r] /\ log[r][i][2] /= OK)
====
